---- MODULE Spec2Model ----
(***************************************************************************)
(* The madness Cloud (src/src/madness/world/cloud.h): a universe-wide      *)
(* container of serialized objects keyed by a content hash, with a         *)
(* process-local read cache and a process-local list of written keys.      *)
(* Every process (rank of the universe) owns one Cloud object; the         *)
(* container is shared.                                                    *)
(***************************************************************************)
EXTENDS Integers, Sequences, FiniteSets, TLC

(***************************************************************************)
(* Bounds of the model.                                                    *)
(***************************************************************************)
NProcs == 2          \* processes of the universe
MaxBits == 1         \* scalar bit patterns are 1..MaxBits
MaxTensor == 2       \* tensor contents are 1..MaxTensor
MaxId == 1           \* distributed objects (FunctionImpl) have ids 1..MaxId
MaxVecLen == 1       \* longest vector of Functions stored
MaxOps == 3          \* calls made in one behaviour
MaxGarbage == 1      \* an uninitialized counter starts in 0..MaxGarbage
MaxElapsed == 1      \* a timer scope measures 1..MaxElapsed ms of its own
MaxCalls == 4        \* calls made in one behaviour of SpecCalls
MaxCallVecLen == 2   \* longest vector of Functions stored in SpecCalls

Procs == 0 .. (NProcs - 1)
Worlds == {"universe", "subworld"}
Bits == 1 .. MaxBits
TensorIds == 1 .. MaxTensor
FuncIds == 1 .. MaxId
ElapsedTimes == 1 .. MaxElapsed

\* World::rank(): the universe spans all processes; every process has a
\* subworld of its own (test_cloud.cc creates universe.size() subworlds).
rank(p, w) == IF w = "universe" THEN p ELSE 0

(***************************************************************************)
(* Values.  An item is one non-tuple C++ object: t is its static type and  *)
(* x its content (a scalar's bit pattern, a tensor's content, the id of    *)
(* the FunctionImpl behind a Function or a shared_ptr<FunctionImpl>, the   *)
(* ids behind a vector of Functions).  An object is what store takes and   *)
(* load returns: one item, or a tuple of items.                            *)
(***************************************************************************)
ScalarTypes == {"size_t", "int", "long", "double"}
HandleTypes == {"Function", "ImplPtr"}
LeafTypes == ScalarTypes \cup {"Tensor"} \cup HandleTypes
ItemTypes == LeafTypes \cup {"VecFunction"}

RECURSIVE SeqsUpTo(_, _)
SeqsUpTo(S, n) ==
    IF n = 0 THEN {<<>>}
    ELSE LET shorter == SeqsUpTo(S, n - 1)
         IN shorter \cup {Append(s, e) : s \in {q \in shorter : Len(q) = n - 1}, e \in S}

Item(t, x) == [t |-> t, x |-> x]

\* The objects the clients store, after test_cloud.cc: a long, a double, a
\* tensor, a Function, the shared_ptr to its implementation, a vector of
\* Functions, a tuple.  (An int or a size_t is stored the way a long is; a
\* size_t is stored as the length of every vector.)
StoredScalarTypes == {"long", "double"}
LeafItems ==
    {Item(t, <<b>>) : t \in StoredScalarTypes, b \in Bits}
        \cup {Item("Tensor", <<c>>) : c \in TensorIds}
        \cup {Item(t, <<i>>) : t \in HandleTypes, i \in FuncIds}
VecItems == {Item("VecFunction", s) : s \in SeqsUpTo(FuncIds, MaxVecLen)}
Items == LeafItems \cup VecItems

Obj(isTuple, items) == [tuple |-> isTuple, items |-> items]
\* the empty tuple, and tuples of a longest vector and a long
TupleObjects ==
    {Obj(TRUE, <<>>)}
        \cup {Obj(TRUE, <<v, Item("long", <<b>>)>>) :
                    v \in {i \in VecItems : Len(i.x) = MaxVecLen}, b \in Bits}
Objects == {Obj(FALSE, <<i>>) : i \in Items} \cup TupleObjects

\* the template argument T of load<T>
TypeOf(obj) == [tuple |-> obj.tuple,
                ts |-> [k \in 1 .. Len(obj.items) |-> obj.items[k].t]]

(***************************************************************************)
(* Hashing.  hash_value of a fundamental type hashes the bytes of the      *)
(* object, so it depends on the width and the bit pattern only, never on   *)
(* the type; distinct byte strings are taken to hash differently.          *)
(***************************************************************************)
HashBase == 100
hash_value(width, bits) == width * HashBase + bits

Width(t) == IF t = "int" THEN 4 ELSE 8
IdWidth == 16   \* a uniqueidT is two words: world id and object id

\* Tensor::normf() as the bit pattern of a double: contents 2k-1 and 2k
\* have the same norm
normf(c) == (c + 1) \div 2

compute_record(item) ==
    IF item.t = "Function" THEN hash_value(IdWidth, item.x[1])
    ELSE IF item.t = "Tensor" THEN hash_value(Width("double"), normf(item.x[1]))
    ELSE IF item.t = "ImplPtr" THEN hash_value(IdWidth, item.x[1])
    ELSE hash_value(Width(item.t), item.x[1])

MaxBits8 ==
    LET m0 == IF MaxCallVecLen > MaxVecLen THEN MaxCallVecLen ELSE MaxVecLen
        m1 == IF m0 > MaxBits THEN m0 ELSE MaxBits
    IN IF normf(MaxTensor) > m1 THEN normf(MaxTensor) ELSE m1
Records ==
    {hash_value(8, b) : b \in 0 .. MaxBits8}
        \cup {hash_value(4, b) : b \in Bits}
        \cup {hash_value(IdWidth, i) : i \in FuncIds}

(***************************************************************************)
(* Serialization.  `par & source` writes the type cookie of the object     *)
(* (archive_typeinfo<T>::cookie, 255 for a type that is not registered)    *)
(* and then its content; `par & target` reads the cookie, fails when it is *)
(* not T's, and reads the content.                                         *)
(***************************************************************************)
UnknownCookie == 255
Cookie(t) ==
    IF t = "size_t" THEN 3
    ELSE IF t = "int" THEN 7
    ELSE IF t = "long" THEN 8
    ELSE IF t = "double" THEN 12
    ELSE IF t = "Tensor" THEN 35
    ELSE UnknownCookie

NoBlob == [cookie |-> -1, x |-> <<>>]
preamble_store(item) == [cookie |-> Cookie(item.t), x |-> item.x]
\* (mutant) the cookie is read and not compared
preamble_load_unchecked(blob, t) == TRUE
\* TRUE when the cookie read from the blob is the one T expects
preamble_load(blob, t) == blob.cookie = Cookie(t)

NotCached == [t |-> "none", x |-> <<>>]

(***************************************************************************)
(* State.                                                                  *)
(***************************************************************************)
VARIABLES
    container,      \* Records -> blob: the WorldContainer of the universe
    pend,           \* per process: its container writes not yet delivered
    cached_objects, \* per process: Records -> cached object
    keys,           \* per process: local_list_of_container_keys
    debug,          \* per process: the three mode bits
    dofence,
    force_load_from_cache,
    reading_time,   \* per process: the four atomic counters
    writing_time,
    cache_reads,
    cache_stores,
    issued,         \* the record lists returned by store so far, with the
                    \* type of the object stored
    stored,         \* per process: the objects it stored since its last
                    \* clear_cache, with the record list each store returned
    nops,           \* calls made so far
    last,           \* the call that just returned: arguments, result, events
    fnptr,          \* a function pointer on its way through the archive:
                    \* the pointer, its relative form, the pointer decoded
    lists,          \* Recordlist objects of a caller, each with the records
                    \* appended to it and popped from it so far
    tasks,          \* the loads that the worker threads of one process are
                    \* in the middle of
    collective      \* a store that every rank of the universe calls: the
                    \* object, and how far each rank has come in it

\* the state beside the Cloud objects, which no operation of Cloud touches
apart == <<fnptr, lists, tasks, collective>>

vars == <<container, pend, cached_objects, keys, debug, dofence,
          force_load_from_cache, reading_time, writing_time, cache_reads,
          cache_stores, issued, stored, nops, last, fnptr, lists, tasks,
          collective>>

\* no function pointer is being serialized
NoFnPtr == [pc |-> "none"]
\* no Recordlist is at hand beside those of the calls
NoLists == <<>>
\* no worker thread is in a call
NoTasks == <<>>
\* no collective store is under way
NoCollective == <<>>

\* an event of a call: a container write (put), an elided write (skip), a
\* fence of world w, a record popped from the list (pop), a cache read
\* (hit), a container read (fetch), a cache insertion (insert); r is the
\* record and t the type of the object stored or asked for
Ev(e, r, w, t) == [e |-> e, r |-> r, w |-> w, t |-> t]

NoObj == Obj(FALSE, <<>>)
NoType == TypeOf(NoObj)
Call(op, p, w) ==
    [op |-> op, p |-> p, w |-> w, arg |-> NoObj, ty |-> NoType, rl |-> <<>>,
     status |-> "ok", val |-> <<>>, out |-> <<>>, trace |-> <<>>, flag |-> FALSE,
     printed |-> <<>>]

(***************************************************************************)
(* The container and the fence.  A write travels to the owner of the key   *)
(* and is applied when it is delivered; a fence of a world returns once    *)
(* the writes of the calling process have been applied.                    *)
(***************************************************************************)
RECURSIVE Flush(_, _)
Flush(cont, writes) ==
    IF writes = <<>> THEN cont
    ELSE Flush([cont EXCEPT ![Head(writes).r] = Head(writes).blob], Tail(writes))

\* the state a call of process p works on: its Cloud members, the container
\* and the call's own progress
CallState(p) ==
    [cont |-> container, pend |-> pend[p], cache |-> cached_objects[p],
     keys |-> keys[p], wtime |-> writing_time[p], rtime |-> reading_time[p],
     creads |-> cache_reads[p], cstores |-> cache_stores[p],
     rl |-> <<>>, status |-> "ok", val |-> <<>>, trace |-> <<>>,
     debug |-> debug[p], printed |-> <<>>]

Log(S, e, r, w, t) == [S EXCEPT !.trace = Append(@, Ev(e, r, w, t))]

\* `if (debug) print(...)`: a line of diagnostic output about an object of
\* type t and a record or a size n
print_if_debug(S, text, t, n) ==
    IF S.debug THEN [S EXCEPT !.printed = Append(@, [text |-> text, t |-> t, n |-> n])]
    ELSE S

\* world.gop.fence()
fence(S, w) ==
    Log([S EXCEPT !.cont = Flush(S.cont, S.pend), !.pend = <<>>], "fence", -1, w, "")

\* (mutant) the archive is opened and nothing is written through it
put_nothing(S, record, item, w) == Log(S, "put", record, w, item.t)

\* ContainerRecordOutputArchive and `par & source`: the serialized object
\* goes to the container under record
put(S, record, item, w) ==
    Log([S EXCEPT !.pend = Append(@, [r |-> record, blob |-> preamble_store(item)])],
        "put", record, w, item.t)

(***************************************************************************)
(* store                                                                   *)
(***************************************************************************)
\* `if (dofence) world.gop.fence();`
fence_if(S, w, fenceflag) == IF fenceflag THEN fence(S, w) ELSE S

\* Recordlist::operator+=
append_record(S, record) == [S EXCEPT !.rl = @ \o <<record>>]

\* (mutant) the key list is never consulted
is_in_container_never(S, key) == FALSE
is_in_container(S, key) == \E i \in 1 .. Len(S.keys) : S.keys[i] = key

\* ~storetimer(): elapsed is what the scope measured
storetimer(S, p, w, elapsed) ==
    IF rank(p, w) = 0 THEN [S EXCEPT !.wtime = @ + elapsed] ELSE S

\* (mutant) an elided write returns an empty record list
store_record_elided(S, p, w, item, fenceflag, record) ==
    IF is_in_container(S, record)
    THEN fence_if(Log([S EXCEPT !.cstores = IF rank(p, w) = 0 THEN @ + 1 ELSE @],
                      "skip", record, w, item.t),
                  w, fenceflag)
    ELSE append_record(
             fence_if([put(S, record, item, w) EXCEPT !.keys = Append(@, record)],
                      w, fenceflag),
             record)

\* (mutant) the blob written carries the rank of the writer after the
\* value
store_other_signed(S, p, w, item, fenceflag) ==
    LET record == compute_record(item)
    IN append_record(
           fence_if(IF is_in_container(S, record)
                    THEN Log([S EXCEPT !.cstores = IF rank(p, w) = 0 THEN @ + 1 ELSE @],
                             "skip", record, w, item.t)
                    ELSE [put(S, record, Item(item.t, item.x \o <<p>>), w)
                             EXCEPT !.keys = Append(@, record)],
                    w, fenceflag),
           record)

\* (mutant) the record is added to the key list whether the write is made
\* or elided
store_record_relisted(S, p, w, item, fenceflag, record) ==
    append_record(
        fence_if(IF is_in_container(S, record)
                 THEN [Log([S EXCEPT !.cstores = IF rank(p, w) = 0 THEN @ + 1 ELSE @],
                           "skip", record, w, item.t)
                          EXCEPT !.keys = Append(@, record)]
                 ELSE [put(S, record, item, w) EXCEPT !.keys = Append(@, record)],
                 w, fenceflag),
        record)

\* (mutant) an elided write returns without the fence
store_record_unfenced(S, p, w, item, fenceflag, record) ==
    append_record(
        IF is_in_container(S, record)
        THEN Log([S EXCEPT !.cstores = IF rank(p, w) = 0 THEN @ + 1 ELSE @],
                 "skip", record, w, item.t)
        ELSE fence_if([put(S, record, item, w) EXCEPT !.keys = Append(@, record)],
                      w, fenceflag),
        record)

\* (mutant) with debug set, the write is made whether or not the record is
\* in the key list
store_record_debug_writes(S, p, w, item, fenceflag, record) ==
    append_record(
        fence_if(IF is_in_container(S, record) /\ ~S.debug
                 THEN Log([S EXCEPT !.cstores = IF rank(p, w) = 0 THEN @ + 1 ELSE @],
                          "skip", record, w, item.t)
                 ELSE [put(print_if_debug(S, "storing object", item.t, record),
                           record, item, w)
                          EXCEPT !.keys = Append(@, record)],
                 w, fenceflag),
        record)

\* the body of store_other once the record is computed: the write or its
\* elision, the fence, `return Recordlist<keyT>{record}`
store_record(S, p, w, item, fenceflag, record) ==
    append_record(
        fence_if(IF is_in_container(S, record)
                 THEN Log([print_if_debug(S, "skipping storing object", item.t, record)
                              EXCEPT !.cstores = IF rank(p, w) = 0 THEN @ + 1 ELSE @],
                          "skip", record, w, item.t)
                 ELSE [put(print_if_debug(S, "storing object", item.t, record),
                           record, item, w)
                          EXCEPT !.keys = Append(@, record)],
                 w, fenceflag),
        record)

\* (mutant) the leaf store fences whatever the flag says
store_other_always_fences(S, p, w, item, fenceflag) ==
    LET record == compute_record(item)
        is_already_present == is_in_container(S, record)
        S1 == IF is_already_present
              THEN Log([S EXCEPT !.cstores = IF rank(p, w) = 0 THEN @ + 1 ELSE @],
                       "skip", record, w, item.t)
              ELSE LET W == put(S, record, item, w)
                   IN [W EXCEPT !.keys = Append(@, record)]
        S2 == fence(S1, w)
    IN [S2 EXCEPT !.rl = @ \o <<record>>]

store_other(S, p, w, item, fenceflag) ==
    store_record(S, p, w, item, fenceflag, compute_record(item))

\* (mutant) an element whose write is elided adds no record to the list
RECURSIVE store_functions_elided(_, _, _, _, _)
store_functions_elided(S, p, w, ids, fenceflag) ==
    IF ids = <<>> THEN S
    ELSE store_functions_elided(
             IF is_in_container(S, compute_record(Item("Function", <<Head(ids)>>)))
             THEN S
             ELSE store_other(S, p, w, Item("Function", <<Head(ids)>>), fenceflag),
             p, w, Tail(ids), fenceflag)

RECURSIVE store_functions(_, _, _, _, _)
store_functions(S, p, w, ids, fenceflag) ==
    IF ids = <<>> THEN S
    ELSE store_functions(store_other(S, p, w, Item("Function", <<Head(ids)>>), fenceflag),
                         p, w, Tail(ids), fenceflag)

\* the overload of store_other for std::vector<Function<T,NDIM>>
store_other_vector(S, p, w, item, fenceflag) ==
    print_if_debug(
        fence_if(store_functions(
                     store_other(print_if_debug(S, "storing vector of size",
                                                item.t, Len(item.x)),
                                 p, w, Item("size_t", <<Len(item.x)>>), fenceflag),
                     p, w, item.x, fenceflag),
                 w, fenceflag),
        "done with vector storing", item.t, Len(item.x))

\* store<T> for a T that is not a tuple; dt is the time the call takes
store_item(S, p, w, item, fenceflag, dt) ==
    storetimer(fence_if(IF item.t = "VecFunction"
                        THEN store_other_vector(S, p, w, item, fenceflag)
                        ELSE store_other(S, p, w, item, fenceflag),
                        w, fenceflag),
               p, w, dt)

\* (mutant) the elements of the tuple are visited last to first
RECURSIVE store_tuple_reversed(_, _, _, _, _, _)
store_tuple_reversed(S, p, w, items, fenceflag, dt) ==
    IF items = <<>> THEN S
    ELSE store_item(store_tuple_reversed(S, p, w, Tail(items), fenceflag, dt),
                    p, w, Head(items), fenceflag, dt)

\* store_tuple: `v += this->store(world, arg)` for every element in order
RECURSIVE store_tuple(_, _, _, _, _, _)
store_tuple(S, p, w, items, fenceflag, dt) ==
    IF items = <<>> THEN S
    ELSE store_tuple(store_item(S, p, w, Head(items), fenceflag, dt),
                     p, w, Tail(items), fenceflag, dt)

\* Cloud::store.  Every timer scope takes dt of its own, so the scope of a
\* tuple store measures dt plus the time of the element stores inside it.
store(S, p, w, obj, fenceflag, dt) ==
    IF obj.tuple
    THEN storetimer(fence_if(store_tuple(S, p, w, obj.items, fenceflag, dt),
                             w, fenceflag),
                    p, w, dt + Len(obj.items) * dt)
    ELSE store_item(S, p, w, obj.items[1], fenceflag, dt)

(***************************************************************************)
(* load                                                                    *)
(***************************************************************************)
\* MADNESS_EXCEPTION / a failed MADNESS_CHECK: the call is left at once
throw(S) == [S EXCEPT !.status = "error"]

\* (mutant) the cache is never consulted
is_cached_never(S, key) == FALSE
is_cached(S, key) == S.cache[key] # NotCached

\* (mutant) the loaded object is not kept
cache_nothing(S, obj, record, w) == Log(S, "insert", record, w, obj.t)

\* Cloud::cache
cache(S, obj, record, w) ==
    Log([S EXCEPT !.cache[record] = obj], "insert", record, w, obj.t)

\* std::get_if<T>(&cached_objects.find(record)->second), or the exception
get_if(S, t, record) ==
    IF S.cache[record].t = t
    THEN [S EXCEPT !.val = Append(@, S.cache[record])]
    ELSE throw(S)

load_from_cache(S, p, w, t, record) ==
    get_if(Log([print_if_debug(S, "loading from cache record", t, record)
                   EXCEPT !.creads = IF rank(p, w) = 0 THEN @ + 1 ELSE @],
               "hit", record, w, t),
           t, record)

\* ContainerRecordInputArchive: the blob the container holds under record
ContainerRecordInputArchive(S, record) == S.cont[record]
\* reading from an archive opened on a record that has no blob fails
no_such_record(blob) == blob = NoBlob

\* `return target` after cache(world, target, record)
return_target(S, target) == [S EXCEPT !.val = Append(@, target)]

\* `par & target` on the archive opened on record
deserialize(S, w, t, record, blob) ==
    IF no_such_record(blob) THEN throw(S)
    ELSE IF ~preamble_load(blob, t) THEN throw(S)
    ELSE return_target(cache(S, Item(t, blob.x), record, w), Item(t, blob.x))

\* the body of load_other once the record is popped from the list
load_record(S, p, w, t, force, record) ==
    IF force /\ ~is_cached(S, record) THEN throw(S)
    ELSE IF is_cached(S, record) THEN load_from_cache(S, p, w, t, record)
    ELSE deserialize(Log(print_if_debug(S, "loading from container record", t, record),
                         "fetch", record, w, t),
                     w, t, record, ContainerRecordInputArchive(S, record))

\* (mutant) the check of force_load_from_cache is compiled out
load_other_unchecked(S, p, w, t, force) ==
    IF S.status # "ok" THEN S
    ELSE IF S.rl = <<>> THEN [S EXCEPT !.status = "ub"]
    ELSE LET record == Head(S.rl)
             S1 == Log([S EXCEPT !.rl = Tail(@)], "pop", record, w, t)
         IN IF is_cached(S1, record) THEN load_from_cache(S1, p, w, t, record)
            ELSE LET blob == ContainerRecordInputArchive(S1, record)
                     S2 == Log(S1, "fetch", record, w, t)
                 IN IF no_such_record(blob) THEN throw(S2)
                    ELSE IF ~preamble_load(blob, t) THEN throw(S2)
                    ELSE LET target == Item(t, blob.x)
                             S3 == cache(S2, target, record, w)
                         IN [S3 EXCEPT !.val = Append(@, target)]

\* (mutant) a record without a blob leaves the allocated target as it is,
\* and the target is cached and returned
load_other_default(S, p, w, t, force) ==
    IF S.status # "ok" THEN S
    ELSE IF S.rl = <<>> THEN [S EXCEPT !.status = "ub"]
    ELSE LET record == Head(S.rl)
             S1 == Log([S EXCEPT !.rl = Tail(@)], "pop", record, w, t)
         IN IF force /\ ~is_cached(S1, record) THEN throw(S1)
            ELSE IF is_cached(S1, record) THEN load_from_cache(S1, p, w, t, record)
            ELSE LET blob == ContainerRecordInputArchive(S1, record)
                     S2 == Log(S1, "fetch", record, w, t)
                     target == Item(t, IF no_such_record(blob) THEN <<0>> ELSE blob.x)
                     S3 == cache(S2, target, record, w)
                 IN IF ~no_such_record(blob) /\ ~preamble_load(blob, t) THEN throw(S2)
                    ELSE [S3 EXCEPT !.val = Append(@, target)]

\* Recordlist::pop_front_and_return on an empty list is undefined
\* behaviour; the call is not followed further
load_other(S, p, w, t, force) ==
    IF S.status # "ok" THEN S
    ELSE IF S.rl = <<>> THEN [S EXCEPT !.status = "ub"]
    ELSE load_record(Log([S EXCEPT !.rl = Tail(@)], "pop", Head(S.rl), w, t),
                     p, w, t, force, Head(S.rl))

\* (mutant) the loop over the elements stops one short of the size
RECURSIVE load_functions_one_short(_, _, _, _, _)
load_functions_one_short(S, p, w, n, force) ==
    IF n <= 1 \/ S.status # "ok" THEN S
    ELSE load_functions_one_short(load_other(S, p, w, "Function", force),
                                  p, w, n - 1, force)

RECURSIVE load_functions(_, _, _, _, _)
load_functions(S, p, w, n, force) ==
    IF n = 0 \/ S.status # "ok" THEN S
    ELSE load_functions(load_other(S, p, w, "Function", force), p, w, n - 1, force)

\* `return target` of load_madness_function_vector: the loaded Functions
\* make the vector, which follows what the call had loaded before (val)
return_vector(S, val) ==
    IF S.status # "ok" THEN S
    ELSE [S EXCEPT !.val = Append(val, Item("VecFunction",
                                [k \in 1 .. Len(S.val) |-> S.val[k].x[1]]))]

\* the loop over sz Functions; S has just loaded the size
load_vector_elements(S, p, w, force, val) ==
    IF S.status # "ok" THEN S
    ELSE return_vector(load_functions([S EXCEPT !.val = <<>>], p, w,
                                      S.val[Len(S.val)].x[1], force),
                       val)

load_madness_function_vector(S, p, w, force) ==
    load_vector_elements(load_other(S, p, w, "size_t", force), p, w, force, S.val)

load_internal(S, p, w, t, force) ==
    IF S.status # "ok" THEN S
    ELSE IF t = "VecFunction" THEN load_madness_function_vector(S, p, w, force)
    ELSE load_other(S, p, w, t, force)

RECURSIVE load_tuple(_, _, _, _, _)
load_tuple(S, p, w, ts, force) ==
    IF ts = <<>> THEN S
    ELSE load_tuple(load_internal(S, p, w, Head(ts), force), p, w, Tail(ts), force)

\* (mutant) the time is added on the normal return only
loadtimer_on_return(S, p, w, elapsed) ==
    IF rank(p, w) = 0 /\ S.status = "ok" THEN [S EXCEPT !.rtime = @ + elapsed] ELSE S

\* ~loadtimer(): runs on every way out of load
loadtimer(S, p, w, elapsed) ==
    IF rank(p, w) = 0 THEN [S EXCEPT !.rtime = @ + elapsed] ELSE S

\* a call left by an exception returns no value
unwind(S) == IF S.status = "ok" THEN S ELSE [S EXCEPT !.val = <<>>]

\* the body of load: S.rl is the copy `Recordlist<keyT> rlist = recordlist`
load_copy(S, p, w, T, force) ==
    IF T.tuple
    THEN load_tuple(print_if_debug(S, "loading tuple", "tuple", Len(T.ts)), p, w, T.ts, force)
    ELSE load_internal(S, p, w, T.ts[1], force)

\* (mutant) load fences the world before it returns
load_and_fence(S, p, w, T, recordlist, force, dt) ==
    LET S0 == [S EXCEPT !.rl = recordlist]
        S1 == IF T.tuple THEN load_tuple(S0, p, w, T.ts, force)
              ELSE load_internal(S0, p, w, T.ts[1], force)
        S2 == IF S1.status = "ok" THEN S1 ELSE [S1 EXCEPT !.val = <<>>]
    IN loadtimer(fence(S2, w), p, w, dt)

\* Cloud::load<T>: works on a copy of the caller's record list
load(S, p, w, T, recordlist, force, dt) ==
    loadtimer(unwind(load_copy([S EXCEPT !.rl = recordlist], p, w, T, force)),
              p, w, dt)

(***************************************************************************)
(* Initial state: Cloud(universe) on every process.  The constructor       *)
(* initializes reading_time and writing_time only; cache_reads and         *)
(* cache_stores start with whatever the memory holds.                      *)
(***************************************************************************)
Init ==
    /\ container = [r \in Records |-> NoBlob]
    /\ pend = [p \in Procs |-> <<>>]
    /\ cached_objects = [p \in Procs |-> [r \in Records |-> NotCached]]
    /\ keys = [p \in Procs |-> <<>>]
    /\ debug = [p \in Procs |-> FALSE]
    /\ dofence = [p \in Procs |-> TRUE]
    /\ force_load_from_cache = [p \in Procs |-> FALSE]
    /\ reading_time = [p \in Procs |-> 0]
    /\ writing_time = [p \in Procs |-> 0]
    /\ \E garbage \in 0 .. MaxGarbage :
            /\ cache_reads = [p \in Procs |-> garbage]
            /\ cache_stores = [p \in Procs |-> garbage]
    /\ issued = {}
    /\ stored = [p \in Procs |-> {}]
    /\ nops = 0
    /\ last = Call("init", 0, "universe")
    /\ fnptr = NoFnPtr
    /\ lists = NoLists
    /\ tasks = NoTasks
    /\ collective = NoCollective

(***************************************************************************)
(* The operations of Cloud, one call per step.                             *)
(***************************************************************************)
set_debug(p, value) ==
    /\ nops < MaxOps
    /\ debug' = [debug EXCEPT ![p] = value]
    /\ nops' = nops + 1
    /\ last' = [Call("set_debug", p, "universe") EXCEPT !.flag = value]
    /\ UNCHANGED apart
    /\ UNCHANGED <<container, pend, cached_objects, keys, dofence,
                   force_load_from_cache, reading_time, writing_time,
                   cache_reads, cache_stores, issued, stored>>

set_fence(p, value) ==
    /\ nops < MaxOps
    /\ dofence' = [dofence EXCEPT ![p] = value]
    /\ nops' = nops + 1
    /\ last' = [Call("set_fence", p, "universe") EXCEPT !.flag = value]
    /\ UNCHANGED apart
    /\ UNCHANGED <<container, pend, cached_objects, keys, debug,
                   force_load_from_cache, reading_time, writing_time,
                   cache_reads, cache_stores, issued, stored>>

set_force_load_from_cache(p, value) ==
    /\ nops < MaxOps
    /\ force_load_from_cache' = [force_load_from_cache EXCEPT ![p] = value]
    /\ nops' = nops + 1
    /\ last' = [Call("set_force_load_from_cache", p, "universe") EXCEPT !.flag = value]
    /\ UNCHANGED apart
    /\ UNCHANGED <<container, pend, cached_objects, keys, debug, dofence,
                   reading_time, writing_time, cache_reads, cache_stores, issued, stored>>

RECURSIVE Sum(_, _)
Sum(f, S) ==
    IF S = {} THEN 0
    ELSE LET e == CHOOSE e \in S : TRUE IN f[e] + Sum(f, S \ {e})

\* collective over the universe; rank 0 prints the four sums
print_timings ==
    /\ nops < MaxOps
    /\ nops' = nops + 1
    /\ last' = [Call("print_timings", 0, "universe") EXCEPT
                    !.out = <<Sum(writing_time, Procs), Sum(reading_time, Procs),
                              Sum(cache_stores, Procs), Sum(cache_reads, Procs)>>]
    /\ UNCHANGED apart
    /\ UNCHANGED <<container, pend, cached_objects, keys, debug, dofence,
                   force_load_from_cache, reading_time, writing_time,
                   cache_reads, cache_stores, issued, stored>>

\* (mutant) clear_cache empties the container as well
clear_cache_and_container(p, subworld) ==
    /\ nops < MaxOps
    /\ cached_objects' = [cached_objects EXCEPT ![p] = [r \in Records |-> NotCached]]
    /\ cache_stores' = [cache_stores EXCEPT ![p] = 0]
    /\ cache_reads' = [cache_reads EXCEPT ![p] = 0]
    /\ keys' = [keys EXCEPT ![p] = <<>>]
    /\ container' = [r \in Records |-> NoBlob]
    /\ pend' = [pend EXCEPT ![p] = <<>>]
    /\ last' = [Call("clear_cache", p, subworld) EXCEPT
                    !.trace = <<Ev("fence", -1, subworld, "")>>,
                    !.out = <<Cardinality({r \in Records : cached_objects[p][r] # NotCached}),
                              Len(keys[p])>>]
    /\ stored' = [stored EXCEPT ![p] = {}]
    /\ nops' = nops + 1
    /\ UNCHANGED apart
    /\ UNCHANGED <<debug, dofence, force_load_from_cache, reading_time,
                   writing_time, issued>>

\* (mutant) clear_cache forgets to clear the key list
clear_cache_keeps_keys(p, subworld) ==
    /\ nops < MaxOps
    /\ LET S0 == CallState(p)
           S == fence(S0, subworld)
       IN /\ cached_objects' = [cached_objects EXCEPT ![p] = [r \in Records |-> NotCached]]
          /\ cache_stores' = [cache_stores EXCEPT ![p] = 0]
          /\ cache_reads' = [cache_reads EXCEPT ![p] = 0]
          /\ keys' = keys
          /\ container' = S.cont
          /\ pend' = [pend EXCEPT ![p] = S.pend]
          /\ last' = [Call("clear_cache", p, subworld) EXCEPT !.trace = S.trace,
                          !.out = <<Cardinality({r \in Records : is_cached(S0, r)}),
                                    Len(S0.keys)>>]
    /\ stored' = [stored EXCEPT ![p] = {}]
    /\ nops' = nops + 1
    /\ UNCHANGED apart
    /\ UNCHANGED <<debug, dofence, force_load_from_cache, reading_time,
                   writing_time, issued>>

clear_cache(p, subworld) ==
    /\ nops < MaxOps
    /\ LET S0 == CallState(p)
           S == fence(S0, subworld)
       IN /\ cached_objects' = [cached_objects EXCEPT ![p] = [r \in Records |-> NotCached]]
          /\ cache_stores' = [cache_stores EXCEPT ![p] = 0]
          /\ cache_reads' = [cache_reads EXCEPT ![p] = 0]
          /\ keys' = [keys EXCEPT ![p] = <<>>]
          /\ container' = S.cont
          /\ pend' = [pend EXCEPT ![p] = S.pend]
          /\ last' = [Call("clear_cache", p, subworld) EXCEPT !.trace = S.trace,
                          !.out = <<Cardinality({r \in Records : is_cached(S0, r)}),
                                    Len(S0.keys)>>]
    /\ stored' = [stored EXCEPT ![p] = {}]
    /\ nops' = nops + 1
    /\ UNCHANGED apart
    /\ UNCHANGED <<debug, dofence, force_load_from_cache, reading_time,
                   writing_time, issued>>

\* (mutant) clear_timings empties the cache too
clear_timings_and_cache(p) ==
    /\ nops < MaxOps
    /\ reading_time' = [reading_time EXCEPT ![p] = 0]
    /\ writing_time' = [writing_time EXCEPT ![p] = 0]
    /\ cache_stores' = [cache_stores EXCEPT ![p] = 0]
    /\ cache_reads' = [cache_reads EXCEPT ![p] = 0]
    /\ keys' = [keys EXCEPT ![p] = <<>>]
    /\ cached_objects' = [cached_objects EXCEPT ![p] = [r \in Records |-> NotCached]]
    /\ nops' = nops + 1
    /\ last' = Call("clear_timings", p, "universe")
    /\ UNCHANGED apart
    /\ UNCHANGED <<container, pend, debug, dofence,
                   force_load_from_cache, issued, stored>>

clear_timings(p) ==
    /\ nops < MaxOps
    /\ reading_time' = [reading_time EXCEPT ![p] = 0]
    /\ writing_time' = [writing_time EXCEPT ![p] = 0]
    /\ cache_stores' = [cache_stores EXCEPT ![p] = 0]
    /\ cache_reads' = [cache_reads EXCEPT ![p] = 0]
    /\ keys' = [keys EXCEPT ![p] = <<>>]
    /\ nops' = nops + 1
    /\ last' = Call("clear_timings", p, "universe")
    /\ UNCHANGED apart
    /\ UNCHANGED <<container, pend, cached_objects, debug, dofence,
                   force_load_from_cache, issued, stored>>

Store(p, w, obj, dt) ==
    /\ nops < MaxOps
    /\ \E S \in {store(CallState(p), p, w, obj, dofence[p], dt)} :
          /\ container' = S.cont
          /\ pend' = [pend EXCEPT ![p] = S.pend]
          /\ keys' = [keys EXCEPT ![p] = S.keys]
          /\ cache_stores' = [cache_stores EXCEPT ![p] = S.cstores]
          /\ writing_time' = [writing_time EXCEPT ![p] = S.wtime]
          /\ issued' = issued \cup {[rl |-> S.rl, ty |-> TypeOf(obj)]}
          /\ stored' = [stored EXCEPT ![p] = @ \cup {[obj |-> obj, rl |-> S.rl]}]
          /\ last' = [Call("store", p, w) EXCEPT !.arg = obj, !.ty = TypeOf(obj),
                          !.rl = S.rl, !.trace = S.trace, !.flag = dofence[p],
                          !.printed = S.printed]
    /\ nops' = nops + 1
    /\ UNCHANGED apart
    /\ UNCHANGED <<cached_objects, debug, dofence, force_load_from_cache,
                   reading_time, cache_reads>>

\* (mutant) load pops from the list of the caller, which is left with what
\* the call did not pop
Load_by_reference(p, w, T, recordlist, dt) ==
    /\ nops < MaxOps
    /\ \E a \in issued, b \in issued : T = a.ty /\ recordlist = b.rl
    /\ \E S \in {load_copy([CallState(p) EXCEPT !.rl = recordlist], p, w, T,
                            force_load_from_cache[p])} :
          /\ cached_objects' = [cached_objects EXCEPT ![p] = S.cache]
          /\ cache_reads' = [cache_reads EXCEPT ![p] = S.creads]
          /\ reading_time' = [reading_time EXCEPT ![p] =
                                  IF rank(p, w) = 0 THEN @ + dt ELSE @]
          /\ issued' = {IF a.rl = recordlist THEN [a EXCEPT !.rl = S.rl] ELSE a :
                            a \in issued}
          /\ last' = [Call("load", p, w) EXCEPT !.ty = T, !.rl = S.rl,
                          !.status = S.status,
                          !.val = IF S.status = "ok" THEN S.val ELSE <<>>,
                          !.trace = S.trace, !.flag = force_load_from_cache[p]]
    /\ nops' = nops + 1
    /\ UNCHANGED apart
    /\ UNCHANGED <<container, pend, keys, debug, dofence, force_load_from_cache,
                   writing_time, cache_stores, stored>>

Load(p, w, T, recordlist, dt) ==
    /\ nops < MaxOps
    /\ \E a \in issued, b \in issued : T = a.ty /\ recordlist = b.rl
    /\ \E S \in {load(CallState(p), p, w, T, recordlist, force_load_from_cache[p], dt)} :
          /\ cached_objects' = [cached_objects EXCEPT ![p] = S.cache]
          /\ cache_reads' = [cache_reads EXCEPT ![p] = S.creads]
          /\ reading_time' = [reading_time EXCEPT ![p] = S.rtime]
          /\ last' = [Call("load", p, w) EXCEPT !.ty = T, !.rl = recordlist,
                          !.status = S.status, !.val = S.val, !.trace = S.trace,
                          !.flag = force_load_from_cache[p], !.printed = S.printed]
    /\ nops' = nops + 1
    /\ UNCHANGED apart
    /\ UNCHANGED <<container, pend, keys, debug, dofence, force_load_from_cache,
                   writing_time, cache_stores, issued, stored>>

\* world.gop.fence() called by the client (test_cloud.cc)
Fence(p, w) ==
    /\ nops < MaxOps
    /\ \E S \in {fence(CallState(p), w)} :
          /\ container' = S.cont
          /\ pend' = [pend EXCEPT ![p] = S.pend]
          /\ last' = [Call("fence", p, w) EXCEPT !.trace = S.trace]
    /\ nops' = nops + 1
    /\ UNCHANGED apart
    /\ UNCHANGED <<cached_objects, keys, debug, dofence, force_load_from_cache,
                   reading_time, writing_time, cache_reads, cache_stores, issued, stored>>

\* the oldest write of process p reaches the owner of its key
Deliver(p) ==
    /\ pend[p] # <<>>
    /\ container' = Flush(container, <<Head(pend[p])>>)
    /\ pend' = [pend EXCEPT ![p] = Tail(@)]
    /\ UNCHANGED apart
    /\ UNCHANGED <<cached_objects, keys, debug, dofence, force_load_from_cache,
                   reading_time, writing_time, cache_reads, cache_stores, issued,
                   stored, nops, last>>

Next ==
    \/ \E p \in Procs : set_debug(p, ~debug[p])
    \/ \E p \in Procs : set_fence(p, ~dofence[p])
    \/ \E p \in Procs : set_force_load_from_cache(p, ~force_load_from_cache[p])
    \/ print_timings
    \/ \E p \in Procs, w \in Worlds : clear_cache(p, w)
    \/ \E p \in Procs : clear_timings(p)
    \/ \E p \in Procs, w \in Worlds, obj \in Objects, dt \in ElapsedTimes :
            Store(p, w, obj, dt)
    \/ \E p \in Procs, w \in Worlds, dt \in ElapsedTimes,
           T \in {a.ty : a \in issued}, rl \in {a.rl : a \in issued} :
            Load(p, w, T, rl, dt)
    \/ \E p \in Procs, w \in Worlds : Fence(p, w)
    \/ \E p \in Procs : Deliver(p)

Spec == Init /\ [][Next]_vars

(***************************************************************************)
(* Longer behaviours of fewer calls: MaxCalls calls of the operations     *)
(* that read or write the container, the cache and the key list, made in  *)
(* the universe with a few objects.  The actions are the ones above; the  *)
(* count of calls starts below zero to leave room for MaxCalls of them.   *)
(***************************************************************************)
CallObjects ==
    {Obj(FALSE, <<Item("long", <<b>>)>>) : b \in Bits}
        \cup {Obj(FALSE, <<Item("Tensor", <<c>>)>>) : c \in TensorIds}
        \cup {Obj(FALSE, <<Item(t, <<i>>)>>) : t \in HandleTypes, i \in FuncIds}
        \cup {Obj(FALSE, <<Item("VecFunction", v)>>) :
                    v \in SeqsUpTo(FuncIds, MaxCallVecLen)}
        \cup {o \in TupleObjects : o.items # <<>>}
        \cup {Obj(TRUE, <<Item("VecFunction", v), Item("long", <<b>>)>>) :
                    v \in {x \in SeqsUpTo(FuncIds, MaxCallVecLen) :
                                Len(x) = MaxCallVecLen},
                    b \in Bits}

InitCalls ==
    /\ container = [r \in Records |-> NoBlob]
    /\ pend = [p \in Procs |-> <<>>]
    /\ cached_objects = [p \in Procs |-> [r \in Records |-> NotCached]]
    /\ keys = [p \in Procs |-> <<>>]
    /\ debug = [p \in Procs |-> FALSE]
    /\ dofence = [p \in Procs |-> TRUE]
    /\ force_load_from_cache = [p \in Procs |-> FALSE]
    /\ reading_time = [p \in Procs |-> 0]
    /\ writing_time = [p \in Procs |-> 0]
    /\ \E garbage \in 0 .. MaxGarbage :
            /\ cache_reads = [p \in Procs |-> garbage]
            /\ cache_stores = [p \in Procs |-> garbage]
    /\ issued = {}
    /\ stored = [p \in Procs |-> {}]
    /\ nops = MaxOps - MaxCalls
    /\ last = Call("init", 0, "universe")
    /\ fnptr = NoFnPtr
    /\ lists = NoLists
    /\ tasks = NoTasks
    /\ collective = NoCollective

NextCalls ==
    \/ \E p \in Procs : set_fence(p, ~dofence[p])
    \/ \E p \in Procs : set_force_load_from_cache(p, ~force_load_from_cache[p])
    \/ \E p \in Procs : clear_cache(p, "universe")
    \/ \E p \in Procs, obj \in CallObjects, dt \in ElapsedTimes :
            Store(p, "universe", obj, dt)
    \/ \E p \in Procs, dt \in ElapsedTimes,
           T \in {a.ty : a \in issued}, rl \in {a.rl : a \in issued} :
            Load(p, "universe", T, rl, dt)
    \/ \E p \in Procs : Fence(p, "universe")
    \/ \E p \in Procs : Deliver(p)

SpecCalls == InitCalls /\ [][NextCalls]_vars

(***************************************************************************)
(* Function pointer serialization (archive.h).  A pointer is a word of    *)
(* PtrBits bits, std::ptrdiff_t, kept as its bit pattern 0 .. 2^PtrBits-1 *)
(* with the arithmetic of the machine, modulo 2^PtrBits.  Addresses are   *)
(* the patterns that are not negative as std::ptrdiff_t.                  *)
(***************************************************************************)
PtrBits == 4
PtrMod == 2 ^ PtrBits
Words == 0 .. PtrMod - 1
\* std::numeric_limits<std::ptrdiff_t>::min()
ptrdiff_min == 2 ^ (PtrBits - 1)
Addresses == 0 .. ptrdiff_min - 1
\* a this-adjustment: an offset within an object, of either sign
Adjustments == Words \ {ptrdiff_min}
ABIs == {"GenericItanium", "GenericARM"}

\* fn_ptr_origin(): the address of the reference function of a process, a
\* non-virtual member function, at an even address
Origins == {a \in Addresses : a # 0 /\ a % 2 = 0}

\* a pointer to member function: the words ptr (0) and adj (1)
MemFnPtr(ptr, adj) == [i \in {0, 1} |-> IF i = 0 THEN ptr ELSE adj]

\* the pointers to member function a compiler makes.  Itanium: ptr is the
\* address of the function, or 1 plus the offset in the virtual table, and
\* 0 in the null pointer; adj is the adjustment to this.  ARM: adj is
\* twice the adjustment, plus 1 for a virtual function; ptr is the address
\* or the offset in the virtual table, and 0 in the null pointer.
MemFnPtrs(abi) ==
    IF abi = "GenericItanium"
    THEN {MemFnPtr(ptr, adj) : ptr \in Addresses, adj \in Adjustments}
    ELSE {MemFnPtr(ptr, (2 * adj) % PtrMod) : ptr \in Addresses, adj \in Adjustments}
            \cup {MemFnPtr(ptr, (2 * adj + 1) % PtrMod) :
                        ptr \in Addresses, adj \in Adjustments}

is_null_memfn_ptr(abi, m) ==
    IF abi = "GenericItanium" THEN m[0] = 0 ELSE m[0] = 0 /\ m[1] % 2 = 0

to_rel_fn_ptr(fn, origin) == (fn - origin) % PtrMod

to_rel_memfn_ptr(abi, result, origin) ==
    IF abi = "GenericItanium"
    THEN IF result[0] = 0
         THEN [result EXCEPT ![1] = ptrdiff_min]
         ELSE IF result[0] % 2 = 0
              THEN [result EXCEPT ![0] = (@ - origin) % PtrMod]
              ELSE result
    ELSE IF result[1] % 2 = 0
         THEN IF result[0] = 0
              THEN [result EXCEPT ![0] = ptrdiff_min]
              ELSE [result EXCEPT ![0] = (@ - origin) % PtrMod]
         ELSE result

to_abs_fn_ptr(rel_fn_ptr, origin) == (rel_fn_ptr + origin) % PtrMod

\* (mutant) a relative pointer of 0 is taken for the null pointer whatever
\* its adjustment
to_abs_memfn_ptr_zero_is_null(abi, rel_fn_ptr, origin) ==
    IF abi = "GenericItanium"
    THEN IF rel_fn_ptr[0] = 0
         THEN [rel_fn_ptr EXCEPT ![1] = 0]
         ELSE IF rel_fn_ptr[0] % 2 = 0
              THEN [rel_fn_ptr EXCEPT ![0] = (@ + origin) % PtrMod]
              ELSE rel_fn_ptr
    ELSE IF rel_fn_ptr[1] % 2 = 0
         THEN IF rel_fn_ptr[0] = ptrdiff_min
              THEN [rel_fn_ptr EXCEPT ![0] = 0]
              ELSE [rel_fn_ptr EXCEPT ![0] = (@ + origin) % PtrMod]
         ELSE rel_fn_ptr

to_abs_memfn_ptr(abi, rel_fn_ptr, origin) ==
    IF abi = "GenericItanium"
    THEN IF rel_fn_ptr[0] = 0 /\ rel_fn_ptr[1] = ptrdiff_min
         THEN [rel_fn_ptr EXCEPT ![1] = 0]
         ELSE IF rel_fn_ptr[0] % 2 = 0
              THEN [rel_fn_ptr EXCEPT ![0] = (@ + origin) % PtrMod]
              ELSE rel_fn_ptr
    ELSE IF rel_fn_ptr[1] % 2 = 0
         THEN IF rel_fn_ptr[0] = ptrdiff_min
              THEN [rel_fn_ptr EXCEPT ![0] = 0]
              ELSE [rel_fn_ptr EXCEPT ![0] = (@ + origin) % PtrMod]
         ELSE rel_fn_ptr

\* a pointer waits in process `from` to be stored in an archive
FnPtr(abi, origin, kind, fn, from) ==
    [pc |-> "absolute", abi |-> abi, origin |-> origin, kind |-> kind,
     fn |-> fn, from |-> from, rel |-> 0, to |-> from, out |-> 0]

\* the build, the reference function of every process and the pointer
InitFnPtr ==
    /\ container = [r \in Records |-> NoBlob]
    /\ pend = [p \in Procs |-> <<>>]
    /\ cached_objects = [p \in Procs |-> [r \in Records |-> NotCached]]
    /\ keys = [p \in Procs |-> <<>>]
    /\ debug = [p \in Procs |-> FALSE]
    /\ dofence = [p \in Procs |-> TRUE]
    /\ force_load_from_cache = [p \in Procs |-> FALSE]
    /\ reading_time = [p \in Procs |-> 0]
    /\ writing_time = [p \in Procs |-> 0]
    /\ cache_reads = [p \in Procs |-> 0]
    /\ cache_stores = [p \in Procs |-> 0]
    /\ issued = {}
    /\ stored = [p \in Procs |-> {}]
    /\ nops = 0
    /\ last = Call("init", 0, "universe")
    /\ \E abi \in ABIs, origin \in [Procs -> Origins], from \in Procs :
            \/ \E fn \in Addresses : fnptr = FnPtr(abi, origin, "free", fn, from)
            \/ \E m \in MemFnPtrs(abi) : fnptr = FnPtr(abi, origin, "member", m, from)
    /\ lists = NoLists
    /\ tasks = NoTasks
    /\ collective = NoCollective

\* the archive of process fnptr.from stores the pointer
StoreFnPtr ==
    /\ fnptr.pc = "absolute"
    /\ fnptr.kind = "free"
    /\ fnptr' = [fnptr EXCEPT !.pc = "relative",
                              !.rel = to_rel_fn_ptr(fnptr.fn, fnptr.origin[fnptr.from])]
    /\ UNCHANGED <<container, pend, cached_objects, keys, debug, dofence,
                   force_load_from_cache, reading_time, writing_time, cache_reads,
                   cache_stores, issued, stored, nops, last, lists, tasks,
                   collective>>

StoreMemFnPtr ==
    /\ fnptr.pc = "absolute"
    /\ fnptr.kind = "member"
    /\ fnptr' = [fnptr EXCEPT !.pc = "relative",
                              !.rel = to_rel_memfn_ptr(fnptr.abi, fnptr.fn,
                                                       fnptr.origin[fnptr.from])]
    /\ UNCHANGED <<container, pend, cached_objects, keys, debug, dofence,
                   force_load_from_cache, reading_time, writing_time, cache_reads,
                   cache_stores, issued, stored, nops, last, lists, tasks,
                   collective>>

\* the archive of process q loads the pointer
LoadFnPtr(q) ==
    /\ fnptr.pc = "relative"
    /\ fnptr.kind = "free"
    /\ fnptr' = [fnptr EXCEPT !.pc = "loaded", !.to = q,
                              !.out = to_abs_fn_ptr(fnptr.rel, fnptr.origin[q])]
    /\ UNCHANGED <<container, pend, cached_objects, keys, debug, dofence,
                   force_load_from_cache, reading_time, writing_time, cache_reads,
                   cache_stores, issued, stored, nops, last, lists, tasks,
                   collective>>

LoadMemFnPtr(q) ==
    /\ fnptr.pc = "relative"
    /\ fnptr.kind = "member"
    /\ fnptr' = [fnptr EXCEPT !.pc = "loaded", !.to = q,
                              !.out = to_abs_memfn_ptr(fnptr.abi, fnptr.rel,
                                                       fnptr.origin[q])]
    /\ UNCHANGED <<container, pend, cached_objects, keys, debug, dofence,
                   force_load_from_cache, reading_time, writing_time, cache_reads,
                   cache_stores, issued, stored, nops, last, lists, tasks,
                   collective>>

NextFnPtr ==
    \/ StoreFnPtr
    \/ StoreMemFnPtr
    \/ \E q \in Procs : LoadFnPtr(q)
    \/ \E q \in Procs : LoadMemFnPtr(q)

SpecFnPtr == InitFnPtr /\ [][NextFnPtr]_vars

(***************************************************************************)
(* Cloud::Recordlist, a std::list of records, on its own: two lists of a  *)
(* caller, built by the constructors and changed by += and                *)
(* pop_front_and_return.  Beside each list are kept the records appended  *)
(* to it and the records popped from it, in the order of the calls.       *)
(***************************************************************************)
MaxKey == 2
MaxListLen == 3
MaxListOps == 4
ListKeys == 1 .. MaxKey
ListNames == {"a", "b"}

\* Recordlist(), Recordlist(key), Recordlist(other)
Recordlist == <<>>
Recordlist_key(key) == <<key>>
Recordlist_copy(other) == other

\* operator+=(const Recordlist&): push_back of every element in turn
RECURSIVE plus_equals_list(_, _)
plus_equals_list(list, list2) ==
    IF list2 = <<>> THEN list
    ELSE plus_equals_list(Append(list, Head(list2)), Tail(list2))

\* operator+=(const T&)
plus_equals_key(list, key) == Append(list, key)

\* (mutant) the key returned and removed is the last one
pop_back_and_return(list) ==
    [key |-> list[Len(list)], list |-> SubSeq(list, 1, Len(list) - 1)]

\* front(), pop_front(), return
pop_front_and_return(list) == [key |-> Head(list), list |-> Tail(list)]

size(list) == Len(list)

\* a list as the caller holds it
Held(list) == [list |-> list, appended |-> list, popped |-> <<>>]

InitRecordlist ==
    /\ container = [r \in Records |-> NoBlob]
    /\ pend = [p \in Procs |-> <<>>]
    /\ cached_objects = [p \in Procs |-> [r \in Records |-> NotCached]]
    /\ keys = [p \in Procs |-> <<>>]
    /\ debug = [p \in Procs |-> FALSE]
    /\ dofence = [p \in Procs |-> TRUE]
    /\ force_load_from_cache = [p \in Procs |-> FALSE]
    /\ reading_time = [p \in Procs |-> 0]
    /\ writing_time = [p \in Procs |-> 0]
    /\ cache_reads = [p \in Procs |-> 0]
    /\ cache_stores = [p \in Procs |-> 0]
    /\ issued = {}
    /\ stored = [p \in Procs |-> {}]
    /\ nops = 0
    /\ last = Call("init", 0, "universe")
    /\ fnptr = NoFnPtr
    /\ lists \in [ListNames -> {Held(Recordlist)}
                                 \cup {Held(Recordlist_key(key)) : key \in ListKeys}]
    /\ tasks = NoTasks
    /\ collective = NoCollective

\* the variables of Cloud and of the archive stay as they are
RecordlistOnly ==
    UNCHANGED <<container, pend, cached_objects, keys, debug, dofence,
                force_load_from_cache, reading_time, writing_time, cache_reads,
                cache_stores, issued, stored, last, fnptr, tasks, collective>>

\* x += key
PlusEqualsKey(x, key) ==
    /\ nops < MaxListOps
    /\ size(lists[x].list) < MaxListLen
    /\ lists' = [lists EXCEPT ![x].list = plus_equals_key(@, key),
                              ![x].appended = Append(@, key)]
    /\ nops' = nops + 1
    /\ RecordlistOnly

\* x += y, of two lists
PlusEqualsList(x, y) ==
    /\ nops < MaxListOps
    /\ x # y
    /\ size(lists[x].list) + size(lists[y].list) <= MaxListLen
    /\ lists' = [lists EXCEPT ![x].list = plus_equals_list(@, lists[y].list),
                              ![x].appended = @ \o lists[y].list]
    /\ nops' = nops + 1
    /\ RecordlistOnly

\* x.pop_front_and_return(), of a list that is not empty
PopFrontAndReturn(x) ==
    /\ nops < MaxListOps
    /\ size(lists[x].list) > 0
    /\ \E popped \in {pop_front_and_return(lists[x].list)} :
            lists' = [lists EXCEPT ![x].list = popped.list,
                                   ![x].popped = Append(@, popped.key)]
    /\ nops' = nops + 1
    /\ RecordlistOnly

\* y is made anew as a copy of x
CopyRecordlist(x, y) ==
    /\ nops < MaxListOps
    /\ x # y
    /\ lists' = [lists EXCEPT ![y] = [list |-> Recordlist_copy(lists[x].list),
                                      appended |-> lists[x].list,
                                      popped |-> <<>>]]
    /\ nops' = nops + 1
    /\ RecordlistOnly

NextRecordlist ==
    \/ \E x \in ListNames, key \in ListKeys : PlusEqualsKey(x, key)
    \/ \E x \in ListNames, y \in ListNames : PlusEqualsList(x, y)
    \/ \E x \in ListNames : PopFrontAndReturn(x)
    \/ \E x \in ListNames, y \in ListNames : CopyRecordlist(x, y)

SpecRecordlist == InitRecordlist /\ [][NextRecordlist]_vars

(***************************************************************************)
(* Loads by the worker threads of one process.  The calls of a thread are *)
(* its steps: the accesses to the std::map cached_objects, which take     *)
(* time (a begin and an end), the increments of the atomic counters and   *)
(* the read of the container.  cached_objects has no lock: an access that *)
(* overlaps a write of another thread is a data race, after which the     *)
(* map answers anything and the process may stop.                         *)
(***************************************************************************)
NWorkers == 2
Workers == 1 .. NWorkers

\* what the threads load: longs and Functions, stored and fenced before
TaskItems ==
    {Item("long", <<b>>) : b \in Bits} \cup {Item("Function", <<i>>) : i \in FuncIds}
\* the stored object whose record is r
StoredAs(r) == CHOOSE item \in TaskItems : compute_record(item) = r

\* load<long>(w, {record}) called by a thread
Task(w, item, dt) ==
    [pc |-> "load", w |-> w, t |-> item.t, record |-> compute_record(item),
     dt |-> dt, access |-> "none", hit |-> FALSE, status |-> "ok",
     val |-> NotCached]

InitTasks ==
    /\ container = [r \in Records |->
                        IF \E item \in TaskItems : compute_record(item) = r
                        THEN preamble_store(StoredAs(r)) ELSE NoBlob]
    /\ pend = [p \in Procs |-> <<>>]
    /\ cached_objects = [p \in Procs |-> [r \in Records |-> NotCached]]
    /\ keys = [p \in Procs |-> <<>>]
    /\ debug = [p \in Procs |-> FALSE]
    /\ dofence = [p \in Procs |-> TRUE]
    /\ force_load_from_cache = [p \in Procs |-> FALSE]
    /\ reading_time = [p \in Procs |-> 0]
    /\ writing_time = [p \in Procs |-> 0]
    /\ cache_reads = [p \in Procs |-> 0]
    /\ cache_stores = [p \in Procs |-> 0]
    /\ issued = {}
    /\ stored = [p \in Procs |-> {}]
    /\ nops = 0
    /\ last = Call("init", 0, "universe")
    /\ fnptr = NoFnPtr
    /\ lists = NoLists
    /\ collective = NoCollective
    /\ \E p \in Procs :
          tasks \in [p : {p}, race : {FALSE},
                     task : [Workers -> {Task(w, item, dt) : w \in Worlds,
                                             item \in TaskItems, dt \in ElapsedTimes}]]

\* what the steps of the threads leave alone
TasksOnly ==
    UNCHANGED <<container, pend, keys, debug, dofence, force_load_from_cache,
                writing_time, cache_stores, issued, stored, nops, last, fnptr,
                lists, collective>>

\* thread k begins an access to cached_objects while another thread is in
\* one, and one of the two writes
Races(k, kind) ==
    \E j \in Workers \ {k} :
        /\ tasks.task[j].access # "none"
        /\ kind = "write" \/ tasks.task[j].access = "write"

BeginAccess(k, kind, pc) ==
    [tasks EXCEPT !.task[k].access = kind, !.task[k].pc = pc,
                  !.race = @ \/ Races(k, kind)]

\* the process is stopped by a signal
Crashed(k) ==
    [tasks EXCEPT !.task[k].access = "none", !.task[k].pc = "crashed",
                  !.task[k].status = "crash", !.task[k].val = NotCached]

\* is_cached(record): cached_objects.count(key) begins
IsCachedBegin(k) ==
    /\ tasks # NoTasks
    /\ tasks.task[k].pc = "load"
    /\ tasks' = BeginAccess(k, "read", "is_cached")
    /\ UNCHANGED <<cached_objects, cache_reads, reading_time>>
    /\ TasksOnly

\* is_cached returns, and load_other takes the branch
IsCachedEnd(k) ==
    /\ tasks # NoTasks
    /\ tasks.task[k].pc = "is_cached"
    /\ \E found \in IF tasks.race THEN BOOLEAN
                    ELSE {is_cached(CallState(tasks.p), tasks.task[k].record)} :
          tasks' = [tasks EXCEPT
                       !.task[k].access = "none",
                       !.task[k].status =
                           IF force_load_from_cache[tasks.p] /\ ~found
                           THEN "error" ELSE @,
                       !.task[k].pc =
                           IF force_load_from_cache[tasks.p] /\ ~found THEN "return"
                           ELSE IF found THEN "load_from_cache" ELSE "fetch"]
    /\ UNCHANGED <<cached_objects, cache_reads, reading_time>>
    /\ TasksOnly

\* load_from_cache: cache_reads++, and cached_objects.find(record) begins
LoadFromCache(k) ==
    /\ tasks # NoTasks
    /\ tasks.task[k].pc = "load_from_cache"
    /\ cache_reads' = [cache_reads EXCEPT ![tasks.p] =
                          IF rank(tasks.p, tasks.task[k].w) = 0 THEN @ + 1 ELSE @]
    /\ tasks' = [BeginAccess(k, "read", "find") EXCEPT !.task[k].hit = TRUE]
    /\ UNCHANGED <<cached_objects, reading_time>>
    /\ TasksOnly

\* find returns and std::get_if gives the object, or throws; after a race
\* the iterator may point anywhere
FindEnd(k) ==
    /\ tasks # NoTasks
    /\ tasks.task[k].pc = "find"
    /\ \/ /\ cached_objects[tasks.p][tasks.task[k].record].t = tasks.task[k].t
          /\ tasks' = [tasks EXCEPT
                          !.task[k].access = "none", !.task[k].pc = "return",
                          !.task[k].val = cached_objects[tasks.p][tasks.task[k].record]]
       \/ /\ ~tasks.race
          /\ cached_objects[tasks.p][tasks.task[k].record].t # tasks.task[k].t
          /\ tasks' = [tasks EXCEPT
                          !.task[k].access = "none", !.task[k].pc = "return",
                          !.task[k].status = "error"]
       \/ /\ tasks.race
          /\ tasks' = Crashed(k)
    /\ UNCHANGED <<cached_objects, cache_reads, reading_time>>
    /\ TasksOnly

\* the blob is read and deserialized, and cached_objects[record] = obj
\* begins
Fetch(k) ==
    /\ tasks # NoTasks
    /\ tasks.task[k].pc = "fetch"
    /\ \E blob \in {container[tasks.task[k].record]} :
          IF no_such_record(blob) \/ ~preamble_load(blob, tasks.task[k].t)
          THEN tasks' = [tasks EXCEPT !.task[k].pc = "return",
                                      !.task[k].status = "error"]
          ELSE tasks' = [BeginAccess(k, "write", "cache") EXCEPT
                            !.task[k].val = Item(tasks.task[k].t, blob.x)]
    /\ UNCHANGED <<cached_objects, cache_reads, reading_time>>
    /\ TasksOnly

\* the assignment to cached_objects[record] ends: the entry is there, or,
\* after a race, it may be lost or the process stopped
CacheEnd(k) ==
    /\ tasks # NoTasks
    /\ tasks.task[k].pc = "cache"
    /\ \/ /\ cached_objects' = [cached_objects EXCEPT
                                   ![tasks.p][tasks.task[k].record] = tasks.task[k].val]
          /\ tasks' = [tasks EXCEPT !.task[k].access = "none",
                                    !.task[k].pc = "return"]
       \/ /\ tasks.race
          /\ cached_objects' = cached_objects
          /\ tasks' = [tasks EXCEPT !.task[k].access = "none",
                                    !.task[k].pc = "return"]
       \/ /\ tasks.race
          /\ cached_objects' = cached_objects
          /\ tasks' = Crashed(k)
    /\ UNCHANGED <<cache_reads, reading_time>>
    /\ TasksOnly

\* load returns: ~loadtimer() adds the time of the call
Return(k) ==
    /\ tasks # NoTasks
    /\ tasks.task[k].pc = "return"
    /\ reading_time' = [reading_time EXCEPT ![tasks.p] =
                           IF rank(tasks.p, tasks.task[k].w) = 0
                           THEN @ + tasks.task[k].dt ELSE @]
    /\ tasks' = [tasks EXCEPT !.task[k].pc = "done",
                              !.task[k].val = IF tasks.task[k].status = "ok"
                                              THEN @ ELSE NotCached]
    /\ UNCHANGED <<cached_objects, cache_reads>>
    /\ TasksOnly

NextTasks ==
    \/ \E k \in Workers : IsCachedBegin(k)
    \/ \E k \in Workers : IsCachedEnd(k)
    \/ \E k \in Workers : LoadFromCache(k)
    \/ \E k \in Workers : FindEnd(k)
    \/ \E k \in Workers : Fetch(k)
    \/ \E k \in Workers : CacheEnd(k)
    \/ \E k \in Workers : Return(k)

SpecTasks == InitTasks /\ [][NextTasks]_vars

(***************************************************************************)
(* A collective store.  Every rank of the universe calls store with the    *)
(* same object; some ranks have stored objects alone before, so that their *)
(* key lists differ.  The fence of a world is collective: a rank that has  *)
(* entered its n-th fence leaves it once every rank of the world has       *)
(* entered its n-th.                                                       *)
(***************************************************************************)
MaxPriorStores == 1     \* stores made by single ranks before the collective one

\* the calls of world.gop.fence() a call makes, in order
FencesOf(trace) == SelectSeq(trace, LAMBDA ev : ev.e = "fence")

\* a rank that has not called yet
IdleRank == [pc |-> "idle", trace |-> <<>>, fences |-> <<>>, entered |-> 0]

InitFences ==
    /\ container = [r \in Records |-> NoBlob]
    /\ pend = [p \in Procs |-> <<>>]
    /\ cached_objects = [p \in Procs |-> [r \in Records |-> NotCached]]
    /\ keys = [p \in Procs |-> <<>>]
    /\ debug = [p \in Procs |-> FALSE]
    /\ \E value \in BOOLEAN : dofence = [p \in Procs |-> value]
    /\ force_load_from_cache = [p \in Procs |-> FALSE]
    /\ reading_time = [p \in Procs |-> 0]
    /\ writing_time = [p \in Procs |-> 0]
    /\ \E garbage \in 0 .. MaxGarbage :
            /\ cache_reads = [p \in Procs |-> garbage]
            /\ cache_stores = [p \in Procs |-> garbage]
    /\ issued = {}
    /\ stored = [p \in Procs |-> {}]
    /\ nops = 0
    /\ last = Call("init", 0, "universe")
    /\ fnptr = NoFnPtr
    /\ lists = NoLists
    /\ tasks = NoTasks
    /\ \E obj \in Objects, dt \in ElapsedTimes :
          collective = [obj |-> obj, dt |-> dt, rank |-> [p \in Procs |-> IdleRank]]

\* a rank stores an object alone, before any rank has made the collective call
PriorStore(p, obj, dt) ==
    /\ nops < MaxPriorStores
    /\ \A q \in Procs : collective.rank[q].pc = "idle"
    /\ Store(p, "universe", obj, dt)

\* rank p calls cloud.store(universe, obj): the writes and elisions are
\* those of store; its fences are entered and left in the steps below
CollectiveStore(p) ==
    /\ collective.rank[p].pc = "idle"
    /\ \E S \in {store(CallState(p), p, "universe", collective.obj, dofence[p],
                       collective.dt)} :
          /\ container' = S.cont
          /\ pend' = [pend EXCEPT ![p] = S.pend]
          /\ keys' = [keys EXCEPT ![p] = S.keys]
          /\ cache_stores' = [cache_stores EXCEPT ![p] = S.cstores]
          /\ writing_time' = [writing_time EXCEPT ![p] = S.wtime]
          /\ issued' = issued \cup {[rl |-> S.rl, ty |-> TypeOf(collective.obj)]}
          /\ stored' = [stored EXCEPT ![p] = @ \cup {[obj |-> collective.obj,
                                                      rl |-> S.rl]}]
          /\ last' = [Call("store", p, "universe") EXCEPT
                          !.arg = collective.obj, !.ty = TypeOf(collective.obj),
                          !.rl = S.rl, !.trace = S.trace, !.flag = dofence[p],
                          !.printed = S.printed]
          /\ collective' = [collective EXCEPT
                               !.rank[p] = [pc |-> "running", trace |-> S.trace,
                                            fences |-> FencesOf(S.trace),
                                            entered |-> 0]]
    /\ UNCHANGED <<cached_objects, debug, dofence, force_load_from_cache,
                   reading_time, cache_reads, nops, fnptr, lists, tasks>>

\* what the steps of a fence leave alone
FencesOnly ==
    UNCHANGED <<container, pend, cached_objects, keys, debug, dofence,
                force_load_from_cache, reading_time, writing_time, cache_reads,
                cache_stores, issued, stored, nops, last, fnptr, lists, tasks>>

\* rank p comes to its next world.gop.fence()
FenceEnter(p) ==
    /\ collective.rank[p].pc = "running"
    /\ collective.rank[p].entered < Len(collective.rank[p].fences)
    /\ collective' = [collective EXCEPT !.rank[p].pc = "fence",
                                        !.rank[p].entered = @ + 1]
    /\ FencesOnly

\* the fence returns on rank p: every rank has entered it
FenceLeave(p) ==
    /\ collective.rank[p].pc = "fence"
    /\ \A q \in Procs : collective.rank[q].entered >= collective.rank[p].entered
    /\ collective' = [collective EXCEPT !.rank[p].pc = "running"]
    /\ FencesOnly

\* `return recordlist` on rank p
StoreReturn(p) ==
    /\ collective.rank[p].pc = "running"
    /\ collective.rank[p].entered = Len(collective.rank[p].fences)
    /\ collective' = [collective EXCEPT !.rank[p].pc = "returned"]
    /\ FencesOnly

\* the steps of a rank that is in the collective store
FenceSteps ==
    \/ \E p \in Procs : FenceEnter(p)
    \/ \E p \in Procs : FenceLeave(p)
    \/ \E p \in Procs : StoreReturn(p)

NextFences ==
    \/ \E p \in Procs, obj \in Objects, dt \in ElapsedTimes : PriorStore(p, obj, dt)
    \/ \E p \in Procs : CollectiveStore(p)
    \/ FenceSteps

\* a rank that is in the store and can go on does
FairFences == WF_vars(FenceSteps)

SpecFences == InitFences /\ [][NextFences]_vars /\ FairFences

(***************************************************************************)
(* Properties.                                                             *)
(***************************************************************************)
\* the positions of the events of kind e in the trace of a call
Events(call, e) == {i \in DOMAIN call.trace : call.trace[i].e = e}
\* no container write is under way
AllFenced == \A p \in Procs : pend[p] = <<>>

\* C1: round trip.  A load of the record list a store has just returned,
\* with the type of the stored object, made once the writes are fenced,
\* by any process into any world, returns the stored object.
C1_RoundTrip ==
    [][(/\ last.op = "store"
        /\ AllFenced
        /\ last'.op = "load"
        /\ last'.rl = last.rl
        /\ last'.ty = last.ty)
       => (last'.status = "ok" /\ last'.val = last.arg.items)]_vars

\* C2: a store of an object the process has stored before, with no
\* clear_cache of the process in between, returns the same record list,
\* writes nothing and appends nothing to the key list.
C2_StoreIdempotent ==
    [][(/\ last'.op = "store"
        /\ nops' = nops + 1
        /\ \E h \in stored[last'.p] : h.obj = last'.arg)
       => (/\ \A h \in stored[last'.p] : h.obj = last'.arg => h.rl = last'.rl
           /\ Events(last', "put") = {}
           /\ keys'[last'.p] = keys[last'.p])]_vars

\* C3 as claimed: a store never writes under a record that has a blob in
\* the container.
C3_ExistingBlobWins ==
    [][(last'.op = "store" /\ nops' = nops + 1)
       => \A i \in Events(last', "put") : container[last'.trace[i].r] = NoBlob]_vars

\* C3 amended: a store writes nothing under a record that is in the key
\* list of the calling process, whether the container has a blob or not;
\* every record of the returned list that was in the key list is skipped.
C3_LedgerWins ==
    [][(last'.op = "store" /\ nops' = nops + 1)
       => LET before == {keys[last'.p][k] : k \in DOMAIN keys[last'.p]}
              tr == last'.trace
          IN /\ \A i \in Events(last', "put") : tr[i].r \notin before
             /\ \A k \in DOMAIN last'.rl :
                    last'.rl[k] \in before
                        => \E i \in Events(last', "skip") : tr[i].r = last'.rl[k]]_vars

\* a store wrote nothing: it skipped records that have a blob in the
\* container
C3_Witness ==
    /\ last.op = "store"
    /\ Events(last, "put") = {}
    /\ \E i \in Events(last, "skip") : container[last.trace[i].r] # NoBlob

\* C4: after a successful load every record the load popped is in the
\* cache of the process, and the same load made again with
\* force_load_from_cache set succeeds and returns an equal value.
C4_LoadWarmsCache ==
    (last.op = "load" /\ last.status = "ok")
        => /\ \A i \in Events(last, "pop") :
                  cached_objects[last.p][last.trace[i].r] # NotCached
           /\ \A w \in Worlds, dt \in ElapsedTimes :
                  LET S == load(CallState(last.p), last.p, w, last.ty, last.rl, TRUE, dt)
                  IN S.status = "ok" /\ S.val = last.val

\* a load has fetched an object from the container and returned it
C4_Witness ==
    /\ last.op = "load"
    /\ last.status = "ok"
    /\ Events(last, "fetch") # {}

\* C5: with force_load_from_cache set, a load that pops a record the cache
\* does not hold fails; it reads nothing from the container and inserts
\* nothing into the cache.
C5_ForcedMissFails ==
    [][(last'.op = "load" /\ nops' = nops + 1 /\ last'.flag)
       => /\ Events(last', "fetch") = {}
          /\ Events(last', "insert") = {}
          /\ cached_objects' = cached_objects
          /\ \A i \in Events(last', "pop") :
                 cached_objects[last'.p][last'.trace[i].r] = NotCached
                     => (last'.status = "error" /\ last'.val = <<>>)]_vars

\* a forced load has failed on a record that is not cached
C5_Witness ==
    /\ last.op = "load"
    /\ last.flag
    /\ last.status = "error"
    /\ \E i \in Events(last, "pop") : cached_objects[last.p][last.trace[i].r] = NotCached

\* C6: a load fails and returns no value when it reads a cached object
\* whose type is not the type asked for, and when it reads a blob whose
\* cookie is not the cookie of the type asked for.
C6_TypeMismatchFails ==
    [][(last'.op = "load" /\ nops' = nops + 1)
       => LET tr == last'.trace
          IN /\ \A i \in Events(last', "hit") :
                    cached_objects'[last'.p][tr[i].r].t # tr[i].t
                        => (last'.status = "error" /\ last'.val = <<>>)
             /\ \A i \in Events(last', "fetch") :
                    (container[tr[i].r] # NoBlob
                        /\ container[tr[i].r].cookie # Cookie(tr[i].t))
                        => (last'.status = "error" /\ last'.val = <<>>
                            /\ cached_objects'[last'.p][tr[i].r] = NotCached)]_vars

\* a load has failed on a blob written for another type
C6_Witness ==
    /\ last.op = "load"
    /\ last.status = "error"
    /\ \E i \in Events(last, "fetch") :
            /\ container[last.trace[i].r] # NoBlob
            /\ container[last.trace[i].r].cookie # Cookie(last.trace[i].t)

\* C7: a load that reads the container under a record that has no blob
\* fails, returns no value and caches nothing under the record.
C7_MissingRecordFails ==
    [][(last'.op = "load" /\ nops' = nops + 1)
       => \A i \in Events(last', "fetch") :
              container[last'.trace[i].r] = NoBlob
                  => /\ last'.status = "error"
                     /\ last'.val = <<>>
                     /\ cached_objects'[last'.p][last'.trace[i].r] = NotCached]_vars

\* a load has failed on a record that has no blob
C7_Witness ==
    /\ last.op = "load"
    /\ last.status = "error"
    /\ \E i \in Events(last, "fetch") : container[last.trace[i].r] = NoBlob

C9_StoreFencesIffFlag ==
    last.op = "store"
        => LET tr == last.trace
           IN IF last.flag
              THEN /\ tr # <<>>
                   /\ tr[Len(tr)].e = "fence"
                   /\ \A i \in Events(last, "fence") : tr[i].w = last.w
              ELSE Events(last, "fence") = {}

\* a tuple with a vector in it has been stored with the fence flag unset
C9_Witness ==
    /\ last.op = "store"
    /\ ~last.flag
    /\ last.arg.tuple
    /\ Events(last, "put") # {}
    /\ Events(last, "skip") # {}

\* C10: clear_cache leaves the process with an empty cache, an empty key
\* list and both counters at zero, and fences the world it was given.
C10_ClearCache ==
    last.op = "clear_cache"
        => /\ \A r \in Records : cached_objects[last.p][r] = NotCached
           /\ keys[last.p] = <<>>
           /\ cache_reads[last.p] = 0
           /\ cache_stores[last.p] = 0
           /\ last.trace = <<Ev("fence", -1, last.w, "")>>

\* clear_cache has dropped cached objects and keys
C10_Witness ==
    /\ last.op = "clear_cache"
    /\ last.out[1] > 0
    /\ last.out[2] > 0

\* C11 as claimed: the load a process makes right after its clear_cache,
\* with every write fenced, fetches every record it pops and leaves it in
\* the cache.
C11_FirstLoadFills ==
    [][(/\ last.op = "clear_cache"
        /\ AllFenced
        /\ last'.op = "load"
        /\ nops' = nops + 1
        /\ last'.p = last.p)
       => \A i \in Events(last', "pop") :
              /\ \E j \in Events(last', "fetch") : last'.trace[j].r = last'.trace[i].r
              /\ cached_objects'[last'.p][last'.trace[i].r] # NotCached]_vars

\* C11 amended: a load of a record the cache holds is a cache hit; a load
\* of a record the cache does not hold is a miss, which fails at once when
\* force_load_from_cache is set and else reads the container, and inserts
\* the object into the cache exactly when a blob of the type asked for is
\* there.  The cache of a process changes in its own load and clear_cache
\* only, so a record once inserted is hit until the next clear_cache.
C11_MissThenHit ==
    [][/\ (last'.op = "load" /\ nops' = nops + 1)
          => LET tr == last'.trace
                 p == last'.p
                 held(i) == \/ cached_objects[p][tr[i].r] # NotCached
                            \/ \E j \in Events(last', "insert") :
                                    j < i /\ tr[j].r = tr[i].r
             IN /\ \A i \in Events(last', "pop") :
                       IF held(i)
                       THEN i + 1 \in Events(last', "hit")
                       ELSE IF last'.flag
                       THEN i = Len(tr) /\ last'.status = "error"
                       ELSE i + 1 \in Events(last', "fetch")
                \* a miss inserts when the blob is there and has the type
                /\ \A i \in Events(last', "fetch") :
                       IF /\ container[tr[i].r] # NoBlob
                          /\ container[tr[i].r].cookie = Cookie(tr[i].t)
                       THEN i + 1 \in Events(last', "insert")
                            /\ tr[i + 1].r = tr[i].r
                            /\ cached_objects'[p][tr[i].r] # NotCached
                       ELSE i = Len(tr) /\ last'.status = "error"
                \* nothing leaves the cache in a load
                /\ \A r \in Records :
                       cached_objects[p][r] # NotCached
                           => cached_objects'[p][r] = cached_objects[p][r]
       /\ \A p \in Procs :
              cached_objects'[p] # cached_objects[p]
                  => last'.p = p /\ last'.op \in {"load", "clear_cache"}]_vars

\* a process whose key list is empty has loaded an object from its cache
\* alone
C11_Witness ==
    /\ last.op = "load"
    /\ last.status = "ok"
    /\ Events(last, "hit") # {}
    /\ Events(last, "fetch") = {}
    /\ keys[last.p] = <<>>
    /\ \E q \in Procs : keys[q] # <<>>

LeafCount(item) == IF item.t = "VecFunction" THEN Len(item.x) + 1 ELSE 1

RECURSIVE LeafCountAll(_)
LeafCountAll(items) ==
    IF items = <<>> THEN 0 ELSE LeafCount(Head(items)) + LeafCountAll(Tail(items))

\* the record lists a process returns when it stores the items one by one
RECURSIVE ElementLists(_, _, _)
ElementLists(p, w, items) ==
    IF items = <<>> THEN <<>>
    ELSE store(CallState(p), p, w, Obj(FALSE, <<Head(items)>>), dofence[p], 1).rl
            \o ElementLists(p, w, Tail(items))

\* C13: the store of a tuple returns the record lists of its elements,
\* each as a store of the element alone returns it, one after the other in
\* the order of the tuple; the list has one record per plain leaf and
\* n + 1 per vector of n Functions, and none for the empty tuple.
C13_TupleRecords ==
    (last.op = "store" /\ last.arg.tuple)
        => /\ last.rl = ElementLists(last.p, last.w, last.arg.items)
           /\ Len(last.rl) = LeafCountAll(last.arg.items)
           /\ (last.arg.items = <<>> => last.rl = <<>>)

\* a tuple of a vector and a long has been stored; one of its writes was
\* elided
C13_Witness ==
    /\ last.op = "store"
    /\ last.arg.tuple
    /\ Len(last.arg.items) = 2
    /\ Len(last.rl) = MaxVecLen + 2
    /\ Events(last, "skip") # {}

\* C14: a load of the record list of a stored Function or shared pointer
\* to a FunctionImpl, with the type of the stored handle, made with the
\* writes fenced and force_load_from_cache unset, by any process, returns
\* a handle to the same object, from the container and from the cache.
C14_HandleRoundTrip ==
    [][(/\ last'.op = "load"
        /\ nops' = nops + 1
        /\ AllFenced
        /\ ~last'.flag)
       => \A q \in Procs : \A h \in stored[q] :
              (/\ ~h.obj.tuple
               /\ h.obj.items[1].t \in HandleTypes
               /\ h.rl = last'.rl
               /\ TypeOf(h.obj) = last'.ty)
                  => (last'.status = "ok" /\ last'.val = h.obj.items)]_vars

\* C15: the record list a store returns depends on the stored object
\* alone.  Stores of one object return one list, whichever process made
\* them and whatever its key list, cache, flags and counters were; and
\* the list the last store returned is the list any process would return
\* for the object now, in any world, with the fence flag set or unset.
C15_RecordsOfValueAlone ==
    /\ \A p, q \in Procs : \A g \in stored[p], h \in stored[q] :
            g.obj = h.obj => g.rl = h.rl
    /\ last.op = "store"
         => \A q \in Procs, w \in Worlds, fenceflag \in BOOLEAN :
                store(CallState(q), q, w, last.arg, fenceflag, 1).rl = last.rl

\* a process has stored an object that another process stored before, and
\* every write of the store was elided
C15_Witness ==
    /\ last.op = "store"
    /\ last.rl # <<>>
    /\ Events(last, "put") = {}
    /\ \E q \in Procs \ {last.p} : \E h \in stored[q] : h.obj = last.arg

\* C16, the leaf rule: a store raises cache_stores of the calling process
\* by the number of its elided leaf writes when the process is rank 0 of
\* the world it stores to, and by nothing otherwise; a leaf that is written
\* adds nothing, and no other process's counter changes.
C16_SkipCounter ==
    [][(last'.op = "store" /\ nops' = nops + 1)
       => LET p == last'.p
          IN /\ Cardinality(Events(last', "skip")) + Cardinality(Events(last', "put"))
                    = Len(last'.rl)
             /\ cache_stores'[p] = cache_stores[p]
                    + (IF rank(p, last'.w) = 0
                       THEN Cardinality(Events(last', "skip")) ELSE 0)
             /\ \A q \in Procs \ {p} : cache_stores'[q] = cache_stores[q]]_vars

\* C16, the second store: a store by rank 0 of an object the process has
\* stored before, with no clear_cache of the process in between, raises
\* cache_stores by the number of leaf records of the object.
C16_SecondStoreCounts ==
    [][(/\ last'.op = "store"
        /\ nops' = nops + 1
        /\ rank(last'.p, last'.w) = 0
        /\ \E h \in stored[last'.p] : h.obj = last'.arg)
       => cache_stores'[last'.p] = cache_stores[last'.p] + Len(last'.rl)]_vars

\* C17: a record that has a blob in the container has a blob in every
\* later state: no operation of the Cloud and no delivery of a write takes
\* a blob out of the container.
C17_BlobsStay ==
    [][\A r \in Records : container[r] # NoBlob => container'[r] # NoBlob]_vars

\* clear_cache has dropped the cache and the keys of a process, and the
\* container still holds a blob
C17_Witness ==
    /\ last.op = "clear_cache"
    /\ last.out[2] > 0
    /\ \E r \in Records : container[r] # NoBlob

\* C18: once the writes are fenced, every record of every record list a
\* store has returned has a blob in the container or an object in the
\* cache of some process, the records whose writes were elided included.
C18_RecordsBacked ==
    AllFenced
        => \A a \in issued : \A k \in DOMAIN a.rl :
               \/ container[a.rl[k]] # NoBlob
               \/ \E p \in Procs : cached_objects[p][a.rl[k]] # NotCached

\* a store has returned a record list without writing anything, the
\* writes are fenced and no cache holds the records
C18_Witness ==
    /\ last.op = "store"
    /\ last.rl # <<>>
    /\ Events(last, "put") = {}
    /\ AllFenced
    /\ \A p \in Procs : \A k \in DOMAIN last.rl :
            cached_objects[p][last.rl[k]] = NotCached

\* C19: cache coherence.  With no write under way, every object in the
\* cache of a process is the object that a read of the blob now in the
\* container under its record gives, for the type of the cached object.
C19_CacheCoherent ==
    AllFenced
        => \A p \in Procs : \A r \in Records :
               cached_objects[p][r] # NotCached
                   => /\ ~no_such_record(container[r])
                      /\ preamble_load(container[r], cached_objects[p][r].t)
                      /\ Item(cached_objects[p][r].t, container[r].x)
                             = cached_objects[p][r]

\* C20, availability: with no write under way (the store's own fence, or
\* a fence after it, has returned), a load of records that stores have
\* returned never reads the container under a record that has no blob.
C20_FencedRecordsFound ==
    [][(/\ last'.op = "load"
        /\ nops' = nops + 1
        /\ AllFenced
        /\ \A k \in DOMAIN last'.rl : \E a \in issued : \E j \in DOMAIN a.rl :
                a.rl[j] = last'.rl[k])
       => \A i \in Events(last', "fetch") : container[last'.trace[i].r] # NoBlob]_vars

\* C20: store before load.  Once the writes of a store are fenced, any
\* later load of the record list the store returned, with the type of the
\* stored object and force_load_from_cache unset, by any process into any
\* world, finds every record and returns the stored object.
C20_StoreBeforeLoad ==
    [][(/\ last'.op = "load"
        /\ nops' = nops + 1
        /\ AllFenced
        /\ ~last'.flag)
       => \A q \in Procs : \A h \in stored[q] :
              (h.rl = last'.rl /\ TypeOf(h.obj) = last'.ty)
                  => /\ \A i \in Events(last', "fetch") :
                            container[last'.trace[i].r] # NoBlob
                     /\ last'.status = "ok"
                     /\ last'.val = h.obj.items]_vars

\* C21: a load adds the time it took to reading_time of the calling
\* process, when it returns and when it fails alike, exactly when the
\* process is rank 0 of the world of the call; a store adds the time it
\* took to writing_time under the same condition, and so does every store
\* of an element that the store of a tuple makes.  On another rank, and
\* for every other process, the totals are as before; a load leaves
\* writing_time alone and a store leaves reading_time alone.
C21_TimersOnRankZero ==
    [][/\ (last'.op = "load" /\ nops' = nops + 1 /\ last'.status \in {"ok", "error"})
          => /\ \E dt \in ElapsedTimes :
                    reading_time' = [reading_time EXCEPT ![last'.p] =
                        @ + (IF rank(last'.p, last'.w) = 0 THEN dt ELSE 0)]
             /\ writing_time' = writing_time
       /\ (last'.op = "store" /\ nops' = nops + 1)
          => /\ \E dt \in ElapsedTimes :
                    LET n == IF last'.arg.tuple THEN Len(last'.arg.items) ELSE 0
                        inner == dt             \* a store of an element
                        outer == dt + n * inner \* the call, its elements included
                    IN writing_time' = [writing_time EXCEPT ![last'.p] =
                           @ + (IF rank(last'.p, last'.w) = 0
                                THEN outer + n * inner ELSE 0)]
             /\ reading_time' = reading_time]_vars

\* a load by rank 0 of its world has failed, and its time is in the total
C21_Witness ==
    /\ last.op = "load"
    /\ last.status = "error"
    /\ rank(last.p, last.w) = 0
    /\ reading_time[last.p] > 0


\* C22: a function pointer stored and loaded by the archives of one process
\* comes back: a pointer to a free function is the same address; a pointer
\* to member function is null when it was null, and has the same two words
\* (the same function, the same adjustment) when it was not, virtual or
\* not.
C22_FnPtrRoundTrip ==
    (fnptr.pc = "loaded" /\ fnptr.to = fnptr.from)
        => IF fnptr.kind = "free"
           THEN fnptr.out = fnptr.fn
           ELSE IF is_null_memfn_ptr(fnptr.abi, fnptr.fn)
                THEN is_null_memfn_ptr(fnptr.abi, fnptr.out)
                ELSE fnptr.out = fnptr.fn

\* a pointer to the reference function itself, with an adjustment, has made
\* the round trip through the relative pointer 0
C22_Witness ==
    /\ fnptr.pc = "loaded"
    /\ fnptr.to = fnptr.from
    /\ fnptr.kind = "member"
    /\ fnptr.abi = "GenericItanium"
    /\ fnptr.fn[0] = fnptr.origin[fnptr.from]
    /\ fnptr.fn[1] # 0
    /\ fnptr.rel[0] = 0


\* C23: a Recordlist is a queue.  Whatever += and pop_front_and_return
\* calls were made on it, the records popped followed by the records it
\* holds are the records appended, in the order they were appended; its
\* size is the number appended less the number popped; a copy starts with
\* the contents of the original, and the calls on one of them leave the
\* other as it was.
C23_RecordlistFifo ==
    lists # NoLists
        => \A x \in ListNames :
               /\ lists[x].popped \o lists[x].list = lists[x].appended
               /\ size(lists[x].list) = Len(lists[x].appended) - Len(lists[x].popped)

\* a list that got two different records and then another list has been
\* popped, with records left in it
C23_Witness ==
    /\ lists # NoLists
    /\ \E x \in ListNames :
           /\ Len(lists[x].appended) > 2
           /\ lists[x].appended[1] # lists[x].appended[2]
           /\ lists[x].popped # <<>>
           /\ lists[x].list # <<>>


\* C24: the cache of a process changes in a load or a clear_cache of that
\* process and in no other step; an entry it holds stays as it is in
\* every step but a clear_cache of the process; a load leaves the key
\* list, the container and the writes under way as they were.
C24_CacheFrame ==
    [][/\ \A p \in Procs :
             cached_objects'[p] # cached_objects[p]
                 => /\ nops' = nops + 1
                    /\ last'.p = p
                    /\ last'.op \in {"load", "clear_cache"}
       /\ \A p \in Procs, r \in Records :
             (cached_objects[p][r] # NotCached
                  /\ ~(nops' = nops + 1 /\ last'.op = "clear_cache" /\ last'.p = p))
                 => cached_objects'[p][r] = cached_objects[p][r]
       /\ (nops' = nops + 1 /\ last'.op = "load")
             => /\ keys' = keys /\ container' = container /\ pend' = pend
                /\ Events(last', "put") = {}
                /\ \A dt \in ElapsedTimes :
                       LET S == load(CallState(last'.p), last'.p, last'.w, last'.ty,
                                     last'.rl, last'.flag, dt)
                       IN /\ S.cont = container
                          /\ S.pend = pend[last'.p]
                          /\ S.keys = keys[last'.p]]_vars

\* a clear_timings has been called by a process whose cache holds an
\* object, put there by a load that fetched it
C24_Witness ==
    /\ last.op = "clear_timings"
    /\ \E r \in Records : cached_objects[last.p][r] # NotCached

\* C25: the cache is per world.  A load into one world does not take from
\* the cache an object that the load before it, by the same process into
\* another world, put there.
C25_CachePerWorld ==
    [][(/\ last.op = "load"
        /\ last'.op = "load"
        /\ nops' = nops + 1
        /\ last'.p = last.p
        /\ last'.w # last.w)
       => \A i \in Events(last, "insert"), j \in Events(last', "hit") :
              last'.trace[j].r # last.trace[i].r]_vars


\* the sum of f over the set S of threads
RECURSIVE SumOver(_, _)
SumOver(f(_), S) ==
    IF S = {} THEN 0
    ELSE LET k == CHOOSE j \in S : TRUE IN f(k) + SumOver(f, S \ {k})

\* C26: when two threads of a process have made their loads, however
\* their steps were interleaved, each has the value stored under its
\* record, the cache holds the loaded records and no others, each with
\* the value stored, and the counters have every increment: one cache
\* read for every load served from the cache and the time of every load,
\* for the loads made on rank 0 of their world.
C26_ConcurrentLoads ==
    (tasks # NoTasks /\ \A k \in Workers : tasks.task[k].pc \in {"done", "crashed"})
        => /\ \A k \in Workers :
                  /\ tasks.task[k].status = "ok"
                  /\ tasks.task[k].val = StoredAs(tasks.task[k].record)
           /\ \A r \in Records :
                  cached_objects[tasks.p][r] =
                      IF \E k \in Workers : tasks.task[k].record = r
                      THEN StoredAs(r) ELSE NotCached
           /\ LET onzero(k) == rank(tasks.p, tasks.task[k].w) = 0
                  hits(k) == IF onzero(k) /\ tasks.task[k].hit THEN 1 ELSE 0
                  time(k) == IF onzero(k) THEN tasks.task[k].dt ELSE 0
              IN /\ cache_reads[tasks.p] = SumOver(hits, Workers)
                 /\ reading_time[tasks.p] = SumOver(time, Workers)

\* the part of C26 that holds: no increment of the counters is lost,
\* whatever became of the cache
C26_NoIncrementLost ==
    tasks # NoTasks
        => LET onzero(k) == rank(tasks.p, tasks.task[k].w) = 0
               hits(k) == IF onzero(k) /\ tasks.task[k].hit THEN 1 ELSE 0
               time(k) == IF onzero(k) /\ tasks.task[k].pc = "done"
                          THEN tasks.task[k].dt ELSE 0
           IN /\ cache_reads[tasks.p] = SumOver(hits, Workers)
              /\ reading_time[tasks.p] = SumOver(time, Workers)


\* the writes a store of obj by process q makes in the state at hand
WritesOf(q, w, obj) ==
    LET S == store(CallState(q), q, w, obj, FALSE, 1)
    IN SubSeq(S.pend, Len(pend[q]) + 1, Len(S.pend))

\* C27: two processes store equal objects one right after the other, and
\* both write (neither skips a record).  The two stores return the same
\* record list, and once the writes under way are delivered, those of
\* either process last, every record written holds the blob of the object.
C27_ConcurrentStores ==
    [][(/\ last.op = "store"
        /\ last'.op = "store"
        /\ nops' = nops + 1
        /\ last'.p # last.p
        /\ last'.arg = last.arg
        /\ Events(last, "skip") = {}
        /\ Events(last', "skip") = {})
       => /\ last'.rl = last.rl
          /\ LET written == WritesOf(last'.p, last'.w, last'.arg)
             IN \A arrivals \in {pend'[last.p] \o pend'[last'.p],
                                 pend'[last'.p] \o pend'[last.p]} :
                    \A i \in DOMAIN written :
                        Flush(container', arrivals)[written[i].r] = written[i].blob]_vars

\* the second of two stores of one object by two processes has returned
\* and a write of each is under way, to the same record
C27_Witness ==
    /\ last.op = "store"
    /\ Events(last, "put") # {}
    /\ \E p \in Procs \ {last.p} :
           /\ \E h \in stored[p] : h.obj = last.arg
           /\ \E i \in DOMAIN pend[p], j \in DOMAIN pend[last.p] :
                  pend[p][i].r = pend[last.p][j].r


\* the records of the events of the kinds es in a trace, each with the type
\* it was written or read as, in the order of the events
RecordsOf(trace, es) ==
    LET chosen == SelectSeq(trace, LAMBDA ev : ev.e \in es)
    IN [k \in DOMAIN chosen |-> [r |-> chosen[k].r, t |-> chosen[k].t]]

\* C28: a load of a record list with the type of the object whose store
\* returned the list pops records from the front of the list in the order
\* of the list, and a load that succeeds pops all of them, each as the
\* type the store appended it for: the fields of a tuple from left to
\* right, the length of a vector and then its elements.
C28_LoadPopsWhatStoreAppends ==
    [][(last'.op = "load" /\ nops' = nops + 1)
       => \A q \in Procs : \A h \in stored[q] :
              (h.rl = last'.rl /\ TypeOf(h.obj) = last'.ty)
                 => LET pops == RecordsOf(last'.trace, {"pop"})
                        appended == RecordsOf(
                            store(CallState(q), q, last'.w, h.obj, FALSE, 1).trace,
                            {"put", "skip"})
                    IN /\ Len(pops) <= Len(appended)
                       /\ pops = SubSeq(appended, 1, Len(pops))
                       /\ [k \in DOMAIN appended |-> appended[k].r] = last'.rl
                       /\ last'.status = "ok" => pops = appended]_vars

\* a tuple of a vector of Functions and another field has been loaded:
\* the length, the elements and then the field
C28_Witness ==
    /\ last.op = "load"
    /\ last.status = "ok"
    /\ last.ty.tuple
    /\ Len(last.ty.ts) = 2
    /\ last.ty.ts[1] = "VecFunction"
    /\ Len(RecordsOf(last.trace, {"pop"})) = MaxCallVecLen + 2


\* the state a call of process p works on once the step is made
CallStateAfter(p) ==
    [cont |-> container', pend |-> pend'[p], cache |-> cached_objects'[p],
     keys |-> keys'[p], wtime |-> writing_time'[p], rtime |-> reading_time'[p],
     creads |-> cache_reads'[p], cstores |-> cache_stores'[p],
     rl |-> <<>>, status |-> "ok", val |-> <<>>, trace |-> <<>>,
     debug |-> debug'[p], printed |-> <<>>]

\* the state after a call, made ready for the next call
Again(S) == [S EXCEPT !.status = "ok", !.val = <<>>, !.trace = <<>>, !.printed = <<>>]

\* C29: a load leaves the list of the caller as it was.  When a load has
\* returned or thrown, the lists the stores returned are the ones they
\* were, the list passed is among them, and the same load made again with
\* that list, and once more after that, ends as the first did and returns
\* what it returned.
C29_LoadKeepsList ==
    [][(last'.op = "load" /\ nops' = nops + 1 /\ last'.status \in {"ok", "error"})
       => /\ issued' = issued
          /\ \E a \in issued' : a.rl = last'.rl
          /\ LET S1 == load(CallStateAfter(last'.p), last'.p, last'.w, last'.ty,
                            last'.rl, last'.flag, 1)
                 S2 == load(Again(S1), last'.p, last'.w, last'.ty, last'.rl,
                            last'.flag, 1)
             IN /\ S1.status = last'.status /\ S1.val = last'.val
                /\ S2.status = last'.status /\ S2.val = last'.val]_vars

\* a load that popped records has failed
C29_Witness ==
    /\ last.op = "load"
    /\ last.status = "error"
    /\ Len(RecordsOf(last.trace, {"pop"})) > 1
    /\ \E a \in issued : a.rl = last.rl


\* C30: clear_timings sets the two times and the two counters of the
\* process to zero and changes nothing else: the cache, the key list, the
\* container, the writes under way and the three flags are what they
\* were, so that a store of an object stored before is still skipped.
C30_ClearTimingsFrame ==
    [][(last'.op = "clear_timings" /\ nops' = nops + 1)
       => /\ reading_time'[last'.p] = 0 /\ writing_time'[last'.p] = 0
          /\ cache_reads'[last'.p] = 0 /\ cache_stores'[last'.p] = 0
          /\ \A q \in Procs \ {last'.p} :
                 /\ reading_time'[q] = reading_time[q]
                 /\ writing_time'[q] = writing_time[q]
                 /\ cache_reads'[q] = cache_reads[q]
                 /\ cache_stores'[q] = cache_stores[q]
          /\ cached_objects' = cached_objects
          /\ keys' = keys
          /\ container' = container /\ pend' = pend
          /\ debug' = debug /\ dofence' = dofence
          /\ force_load_from_cache' = force_load_from_cache
          /\ \A h \in stored[last'.p], w \in Worlds :
                 Events(store(CallStateAfter(last'.p), last'.p, w, h.obj,
                              dofence'[last'.p], 1), "put") = {}]_vars


\* C31: the key list of a process names no record twice, and once the
\* writes of the process are delivered every record it names has a blob
\* in the container; so every record whose write the last store elided
\* has a blob.
C31_KeyLedgerSound ==
    \A p \in Procs :
        /\ \A i, j \in DOMAIN keys[p] : keys[p][i] = keys[p][j] => i = j
        /\ pend[p] = <<>>
             => /\ \A i \in DOMAIN keys[p] : container[keys[p][i]] # NoBlob
                /\ (last.op = "store" /\ last.p = p)
                     => \A i \in Events(last, "skip") :
                            container[last.trace[i].r] # NoBlob

\* a store has elided a write with the writes of the process delivered and
\* two records in its key list
C31_Witness ==
    /\ last.op = "store"
    /\ Events(last, "skip") # {}
    /\ pend[last.p] = <<>>
    /\ Len(keys[last.p]) > 1


\* the fences of store(universe, obj) on a rank whose key list is empty
StructuralFences(obj, fenceflag) ==
    FencesOf(store([CallState(0) EXCEPT !.keys = <<>>], 0, "universe", obj,
                   fenceflag, 0).trace)

\* the ranks that have made the collective call make the fences the object
\* and the flag determine, whatever their key lists elide
C32_SameFences ==
    collective # NoCollective
        => \A p \in Procs :
              collective.rank[p].pc # "idle"
                  => collective.rank[p].fences
                       = StructuralFences(collective.obj, dofence[p])

\* every rank returns from the collective store
C32_AllReturned ==
    collective # NoCollective /\ \A p \in Procs : collective.rank[p].pc = "returned"

\* every rank has made the collective call
C32_AllCalled ==
    collective # NoCollective /\ \A p \in Procs : collective.rank[p].pc # "idle"

\* C32: the fences of a store are those the fence flag and the structure of
\* the object determine, whether or not a write is elided; the ranks of a
\* collective store whose key lists differ make the same fences, and once
\* all have called every one of them leaves every fence and returns.
C32_FencesMatch == [](C32_SameFences) /\ (C32_AllCalled ~> C32_AllReturned)

\* the collective store has returned on every rank after two fences or
\* more, one rank having elided a write that another rank made
C32_Witness ==
    /\ C32_AllReturned
    /\ \E p, q \in Procs :
          /\ Len(collective.rank[p].fences) >= 2
          /\ \E i \in DOMAIN collective.rank[p].trace :
                 collective.rank[p].trace[i].e = "skip"
          /\ \A i \in DOMAIN collective.rank[q].trace :
                 collective.rank[q].trace[i].e # "skip"


\* C33: a load that fails leaves the cache, the key list, the container
\* and the count of cache reads of the process as they were before the
\* call.
C33_FailedLoadChangesNothing ==
    [][(last'.op = "load" /\ nops' = nops + 1 /\ last'.status = "error")
       => /\ cached_objects' = cached_objects
          /\ keys' = keys
          /\ container' = container
          /\ cache_reads' = cache_reads]_vars

\* the part of C33 that holds: a failed load leaves the key list and the
\* container as they were
C33_FailedLoadKeepsStore ==
    [][(last'.op = "load" /\ nops' = nops + 1 /\ last'.status = "error")
       => keys' = keys /\ container' = container /\ pend' = pend]_vars


\* the leaf writes a store of the object asks for, each with the type of
\* the leaf and its record
LeavesOf(obj) ==
    UNION {IF obj.items[k].t = "VecFunction"
           THEN {<<"size_t", compute_record(Item("size_t", <<Len(obj.items[k].x)>>))>>}
                \cup {<<"Function", compute_record(Item("Function", <<obj.items[k].x[j]>>))>> :
                         j \in DOMAIN obj.items[k].x}
           ELSE {<<obj.items[k].t, compute_record(obj.items[k])>>} :
           k \in DOMAIN obj.items}

\* C34: stores of different types do not interfere.  A store elides the
\* write of a leaf only when a leaf of the same type with the same record
\* was written by the process before, in an earlier store or earlier in
\* this one; a leaf of another type never causes the elision.
C34_NoElisionAcrossTypes ==
    [][(last'.op = "store" /\ nops' = nops + 1)
       => \A i \in Events(last', "skip") :
              \/ \E h \in stored[last'.p] :
                     <<last'.trace[i].t, last'.trace[i].r>> \in LeavesOf(h.obj)
              \/ \E j \in 1 .. i - 1 :
                     /\ last'.trace[j].e \in {"put", "skip"}
                     /\ last'.trace[j].t = last'.trace[i].t
                     /\ last'.trace[j].r = last'.trace[i].r]_vars


\* C35: a pointer to a free function stored by the archive of one process
\* and loaded by the archive of another is moved by the difference of the
\* addresses of their reference functions when it is not null, and is null
\* when it was null.
C35_FnPtrPortable ==
    (fnptr.pc = "loaded" /\ fnptr.kind = "free")
        => fnptr.out = IF fnptr.fn = 0 THEN 0
                       ELSE (fnptr.fn - fnptr.origin[fnptr.from]
                                 + fnptr.origin[fnptr.to]) % PtrMod

\* the part of C35 that holds: a pointer that is not null is moved by the
\* difference of the reference addresses
C35_NonNullMoved ==
    (fnptr.pc = "loaded" /\ fnptr.kind = "free" /\ fnptr.fn # 0)
        => fnptr.out = (fnptr.fn - fnptr.origin[fnptr.from]
                            + fnptr.origin[fnptr.to]) % PtrMod


\* C36: a load whose record list ends before every leaf of the type is
\* read fails with an error: it never pops a record from an empty list,
\* and it returns no value.
C36_ShortListFails ==
    [][(last'.op = "load" /\ nops' = nops + 1)
       => /\ last'.status \in {"ok", "error"}
          /\ (~last'.ty.tuple /\ last'.rl = <<>>)
                 => (last'.status = "error" /\ last'.val = <<>>)]_vars

\* a load that comes to the end of its list too early has popped every
\* record of the list
C36_ShortListPopsAll ==
    [][(last'.op = "load" /\ nops' = nops + 1 /\ last'.status = "ub")
       => Cardinality(Events(last', "pop")) = Len(last'.rl)]_vars

\* the call of the step, made by a Cloud whose debug bit is the other one
WithOtherDebug(dt) ==
    IF last'.op = "store"
    THEN store([CallState(last'.p) EXCEPT !.debug = ~@], last'.p, last'.w, last'.arg,
               dofence[last'.p], dt)
    ELSE load([CallState(last'.p) EXCEPT !.debug = ~@], last'.p, last'.w, last'.ty,
              last'.rl, force_load_from_cache[last'.p], dt)

\* C37: the debug flag changes the diagnostic output only.  Whatever a
\* store or a load returns and does to the container, the pending writes,
\* the cache, the key list and the counters, and whatever writes, reads
\* and fences it makes, the same call made in the same state by a Cloud
\* with the other debug bit returns and does the same.
C37_DebugPrintsOnly ==
    [][(last'.op \in {"store", "load"} /\ nops' = nops + 1)
       => \E dt \in ElapsedTimes :
             LET R == WithOtherDebug(dt)
             IN /\ R.cont = container'
                /\ R.pend = pend'[last'.p]
                /\ R.cache = cached_objects'[last'.p]
                /\ R.keys = keys'[last'.p]
                /\ R.wtime = writing_time'[last'.p]
                /\ R.rtime = reading_time'[last'.p]
                /\ R.creads = cache_reads'[last'.p]
                /\ R.cstores = cache_stores'[last'.p]
                /\ R.trace = last'.trace
                /\ R.status = last'.status
                /\ R.val = last'.val
                /\ last'.op = "store" => R.rl = last'.rl]_vars

\* a store made with debug set has elided a write and printed that it did
C37_Witness ==
    /\ last.op = "store"
    /\ debug[last.p]
    /\ Events(last, "skip") # {}
    /\ \E i \in DOMAIN last.printed : last.printed[i].text = "skipping storing object"

\* C38: the time a store call took, the stores of the elements of a tuple
\* included, is added to writing_time once on rank 0 of the world of the
\* call, and nothing else is added.
C38_StoreTimeOnce ==
    [][(last'.op = "store" /\ nops' = nops + 1 /\ rank(last'.p, last'.w) = 0)
       => \E dt \in ElapsedTimes :
             LET n == IF last'.arg.tuple THEN Len(last'.arg.items) ELSE 0
                 elapsed == dt + n * dt  \* the call, its elements included
             IN writing_time'[last'.p] = writing_time[last'.p] + elapsed]_vars

\* the part of C38 that holds: the store of an object that is no tuple
\* adds its time once
C38_LeafStoreTimeOnce ==
    [][(/\ last'.op = "store"
        /\ nops' = nops + 1
        /\ rank(last'.p, last'.w) = 0
        /\ ~last'.arg.tuple)
       => \E dt \in ElapsedTimes :
             writing_time'[last'.p] = writing_time[last'.p] + dt]_vars

====
